---- MODULE Spec2Model ----
(***************************************************************************)
(* Mastermind: the feedback function CheckCode, the game object and the    *)
(* minimax solver (package solver).                                        *)
(*                                                                         *)
(* A Code ([]byte) is a sequence of naturals.  A Go string is the sequence *)
(* of its code points.  A Go map is a function from its keys.  A slice     *)
(* whose order no consumer reads is the set of its elements.               *)
(***************************************************************************)
EXTENDS Integers, Sequences, FiniteSets, Bags, TLC

VARIABLES
    pc,            \* position of the running program
    guessArg,      \* CheckCode: argument guess
    actualArg,     \* CheckCode: argument actual
    colorsArg,     \* CheckCode: argument colors
    ret,           \* value returned by the finished call
    game,          \* mm.Game: TurnsTaken, Size, secretCode
    initialMoves,  \* package variable initialMoves (opening-move cache)
    initialMove,   \* Solver.initialMove
    S,             \* Solve: local S (codeSet)
    P,             \* Solve: local P (codeSlice)
    guess,         \* Solve: local guess
    plan,          \* rounds of Solve worked out beforehand (NoPlan: none)
    calls,         \* the goroutines that run NewSolver concurrently
    initialMutex,  \* package variable initialMutex: 0, or the call that holds it
    computed,      \* how often each size's opening move has been calculated
    genetic,       \* genetic.Solver: move, guesses, results
    usedCodes,     \* mastermind.Solve: local usedCodes
    scoredGuesses, \* Solver.Solve: the guesses scored so far, with their results
    limiter,       \* Solver.score: local limiter (workers in flight, lock)
    workers,       \* Solver.score: the goroutines started by limiter.Go
    guesses,       \* Solver.score: local guesses (map[int]codeSlice)
    Ei,            \* genetic Solve: local Ei, as a set of codes
    population,    \* genetic Solve: the codes of drawnCodes its populations held
    generation,    \* genetic Solve: the counter h of the generation loop
    heap,          \* the storage of the codes (byte slices) of the citizens
    spawn,         \* genetic Spawn: x, y, child and what has fired
    generate       \* genetic Generate: pop, elders, nextGen and the pairs made

vars == <<pc, guessArg, actualArg, colorsArg, ret, game, initialMoves,
          initialMove, S, P, guess, plan, calls, initialMutex, computed,
          genetic, usedCodes, scoredGuesses, limiter, workers, guesses,
          Ei, population, generation, heap, spawn, generate>>

checkVars == <<guessArg, actualArg, colorsArg>>
solverVars == <<game, initialMoves, initialMove, S, P, guess, plan>>
callVars == <<calls, initialMutex, computed>>
scoreVars == <<limiter, workers, guesses>>
generationVars == <<Ei, population, generation>>
spawnVars == <<heap, spawn, generate>>

(***************************************************************************)
(* Bounds of the model and constants of the program.                       *)
(***************************************************************************)
MaxLen == 3          \* longest code handed to CheckCode directly
MaxColorVal == 3     \* largest color value (and color count) handed to CheckCode
MaxPositions == 3    \* largest position count of a game given to the solver
MaxColors == 5       \* largest color count of a game given to the solver
MaxCodes == 64       \* largest code space of a game given to the solver
MaxTurns == 8        \* cap on Game.TurnsTaken
MaxCalls == 2        \* number of concurrent calls of NewSolver
MaxCallSide == 2     \* largest position and color count of their games
MaxGeneticPositions == 4  \* largest position count of a genetic solver's game
MaxGeneticColors == 6     \* largest color count asked for such a game
MaxDraws == 2        \* number of codes the random sources yield
MaxScoreCodes == 9   \* largest code space of a game whose score call is followed
MaxInFlight == 2     \* most workers of score between start and finish
MaxSpawnCodes == 9   \* largest code space of a game whose Spawn is followed
MaxPermuteDraws == 12 \* most draws of the second position followed in permute
MaxGenerateCodes == 16 \* largest code space of a game whose Generate is followed
MaxPopulation == 8   \* largest population handed to Generate, or returned by it
MaxOperatorsFired == 0 \* most mutations, permutations and inversions in one Generate
MaxOpeningCodes == 1296 \* largest code space in which every code's worst case is worked out
MaxLoopMoves == 2    \* most moves made when the generation loop is followed step by step

defaultPositions == 4
defaultColors == 6

\* mm.Code{}: the code of no positions
NoCode == <<>>
NoResult == [Correct |-> 0, HalfCorrect |-> 0]

\* no goroutine runs NewSolver
NoCalls == calls = <<>> /\ initialMutex = 0 /\ computed = <<>>

\* there is no genetic.Solver
NoGenetic == genetic = <<>>

\* Solver.score is not running
NoScore == limiter = <<>> /\ workers = <<>> /\ guesses = <<>>

\* the genetic Solve has not reached its generation loop
NoGeneration == Ei = {} /\ population = {} /\ generation = 0

\* neither Spawn nor Generate is running
NoSpawn == heap = <<>> /\ spawn = <<>> /\ generate = <<>>

(***************************************************************************)
(* service.go                                                              *)
(***************************************************************************)

\* Code.String: every byte r is written as the rune r + '0'
String(c) == [i \in 1..Len(c) |-> c[i] + 48]

\* the built-in < of Go strings
RECURSIVE StringLess(_, _, _)
StringLess(s, t, i) ==
    IF i > Len(s) THEN i <= Len(t)
    ELSE IF i > Len(t) THEN FALSE
    ELSE IF s[i] # t[i] THEN s[i] < t[i]
    ELSE StringLess(s, t, i + 1)

\* Less with the order reversed
Greater(a, b) == StringLess(String(b), String(a), 1)

\* codeSlice.Less on two elements
Less(a, b) == StringLess(String(a), String(b), 1)

\* how often each color occurs in code
colorBag(code) == BagOfAll(LAMBDA i : code[i], SetToBag(DOMAIN code))

\* countColors that notes a color once however often it occurs
countColorsOnce(bag, color) == IF BagIn(color, bag) THEN 1 ELSE 0

\* countColors(code, color), where bag is colorBag(code)
countColors(bag, color) == CopiesIn(color, bag)

\* min that gives the second count for every color the first code holds
minOfActual(x, y) == IF x > 0 THEN y ELSE 0

min(x, y) == IF y < x THEN y ELSE x

\* the loop started at color 1 instead of color 0
RECURSIVE sumMinFromOne(_, _, _, _)
sumMinFromOne(gb, ab, i, colors) ==
    IF i + 1 >= colors THEN 0
    ELSE min(countColors(gb, i + 1), countColors(ab, i + 1))
         + sumMinFromOne(gb, ab, i + 1, colors)

\* the loop "for i := byte(0); i < colors; i++ { halfCorrect += min(x, y) }" on
\* the codes with the color bags gb and ab
RECURSIVE sumMin(_, _, _, _)
sumMin(gb, ab, i, colors) ==
    IF i >= colors THEN 0
    ELSE min(countColors(gb, i), countColors(ab, i)) + sumMin(gb, ab, i + 1, colors)

\* CheckCode without the statement "halfCorrect -= correct"
scoreCodesNoSubtract(g, a, colors, gb, ab) ==
    [Correct |-> Cardinality({i \in DOMAIN g : g[i] = a[i]}),
     HalfCorrect |-> sumMin(gb, ab, 0, colors)]

\* CheckCode below the length check; gb and ab are the color bags of g and a
scoreCodes(g, a, colors, gb, ab) ==
    LET correct == Cardinality({i \in DOMAIN g : g[i] = a[i]})
        halfCorrect == sumMin(gb, ab, 0, colors) - correct
    IN [Correct |-> correct, HalfCorrect |-> halfCorrect]

\* CheckCode that rejects a guess only when it is the longer code
CheckCodeLonger(g, a, colors) ==
    IF Len(g) > Len(a)
    THEN [res |-> NoResult, err |-> TRUE]
    ELSE [res |-> scoreCodes(g, a, colors, colorBag(g), colorBag(a)),
          err |-> FALSE]

CheckCode(g, a, colors) ==
    IF Len(g) # Len(a)
    THEN [res |-> NoResult, err |-> TRUE]
    ELSE [res |-> scoreCodes(g, a, colors, colorBag(g), colorBag(a)),
          err |-> FALSE]

\* IsWin that accepts one position short of all
IsWinAlmost(g, r) == r.Correct >= g.Positions - 1 /\ r.HalfCorrect = 0

IsWin(g, r) == r.Correct = g.Positions /\ r.HalfCorrect = 0

IsWinner(g, c) == String(c) = String(g.secretCode)

(***************************************************************************)
(* CheckCode called on its own                                             *)
(***************************************************************************)
CodesOfLen(n, vals) == [1..n -> vals]

CheckInputs == UNION {CodesOfLen(n, 0..MaxColorVal) : n \in 0..MaxLen}

\* the guesses of TestGuessLogic, scored against the secret 5432
TestGuesses == {<<1,1,1,1>>, <<1,2,3,4>>, <<1,2,3,5>>, <<4,3,2,1>>,
                <<5,3,2,1>>, <<5,4,3,1>>, <<5,4,3,2>>}
TestSecret == <<5,4,3,2>>

InitCheck ==
    /\ pc = "check"
    /\ \/ /\ guessArg \in CheckInputs
          /\ actualArg \in CheckInputs
          /\ colorsArg \in 0..MaxColorVal
       \/ /\ guessArg \in TestGuesses
          /\ actualArg = TestSecret
          /\ colorsArg = defaultColors
    /\ ret = <<>>
    /\ game = <<>> /\ initialMoves = <<>> /\ initialMove = NoCode
    /\ S = <<>> /\ P = <<>> /\ guess = NoCode /\ plan = <<>>
    /\ NoCalls /\ NoGenetic /\ usedCodes = <<>> /\ scoredGuesses = <<>> /\ NoScore /\ NoGeneration /\ NoSpawn

DoCheckCode ==
    /\ pc = "check"
    /\ ret' = CheckCode(guessArg, actualArg, colorsArg)
    /\ pc' = "checked"
    /\ UNCHANGED <<checkVars, scoredGuesses, solverVars, callVars, genetic,
                   usedCodes, scoreVars,
                   generationVars, spawnVars>>

NextCheck == DoCheckCode

SpecCheck == InitCheck /\ [][NextCheck]_vars

(***************************************************************************)
(* The game object (service.go)                                            *)
(***************************************************************************)

\* int(math.Pow(float64(b), float64(e))) for the small naturals used here
RECURSIVE Pow(_, _)
Pow(b, e) == IF e <= 0 THEN 1 ELSE b * Pow(b, e - 1)

NewCustomGameWithSecret(positions, colors, secret) ==
    LET posSqr == Pow(positions, 2)
    IN [TurnsTaken |-> 0,
        Positions  |-> positions,
        Colors     |-> IF colors > posSqr THEN posSqr ELSE colors,
        secretCode |-> secret]

\* Game.ScoredGuess: the result and error; TurnsTaken++ is done by the caller's action
ScoredGuess(g, code) == CheckCode(code, g.secretCode, g.Colors)

(***************************************************************************)
(* solver/solver.go                                                        *)
(***************************************************************************)
Range(f) == {f[x] : x \in DOMAIN f}

\* the inner loop with the power of the position to the left
RECURSIVE codeDigitsShifted(_, _, _)
codeDigitsShifted(g, remainder, pos) ==
    IF pos >= g.Positions THEN <<>>
    ELSE LET power == Pow(g.Colors, g.Positions - pos)
             posVal == remainder \div power
         IN <<posVal>> \o codeDigitsShifted(g, remainder - posVal * power, pos + 1)

\* the inner loop of allPossibleCodes: the digits of remainder from position pos on
RECURSIVE codeDigits(_, _, _)
codeDigits(g, remainder, pos) ==
    IF pos >= g.Positions THEN <<>>
    ELSE LET power == Pow(g.Colors, g.Positions - pos - 1)
             posVal == remainder \div power
         IN <<posVal>> \o codeDigits(g, remainder - posVal * power, pos + 1)

\* codeSet{}
emptyCodeSet == [k \in {} |-> NoCode]

\* the body of allPossibleCodes: the pair (set, slice).  set[code.String()] = code
\* is written once per element of slice; String is one-to-one, so no write
\* replaces an earlier one
enumerateCodes(g) ==
    LET numPossibleCodes == Pow(g.Colors, g.Positions)
        slice == [i \in 1..numPossibleCodes |-> codeDigits(g, i - 1, 0)]
        codes == {slice[i] : i \in 1..numPossibleCodes}
    IN [set   |-> emptyCodeSet @@ [k \in {String(c) : c \in codes} |->
                                      CHOOSE c \in codes : String(c) = k],
        slice |-> slice]

possibleResults(g) ==
    LET row(black) == [w \in 1..(g.Positions - black + 1) |->
                          [Correct |-> black,
                           HalfCorrect |-> g.Positions - black - (w - 1)]]
        RECURSIVE rows(_)
        rows(black) == IF black > g.Positions THEN <<>>
                       ELSE row(black) \o rows(black + 1)
    IN rows(0)

emptyHitMap(g) == [r \in Range(possibleResults(g)) |-> 0]

defaultSize == [Positions |-> defaultPositions, Colors |-> defaultColors]

\* the value of allPossibleCodes at the default size, evaluated once
defaultEnumerated == enumerateCodes(defaultSize)
defaultSet == defaultEnumerated.set
defaultSlice ==
    [i \in 1..Pow(defaultColors, defaultPositions) |-> defaultEnumerated.slice[i]]
defaultCodes == [set |-> defaultSet, slice |-> defaultSlice]

allPossibleCodes(g) ==
    IF g.Positions = defaultPositions /\ g.Colors = defaultColors
    THEN defaultCodes
    ELSE enumerateCodes(g)

\* the color bags of the codes of the default size, evaluated once
defaultBags == [i \in DOMAIN defaultSlice |-> colorBag(defaultSlice[i])]

\* the color bags of the codes of slice
bags(g, slice) ==
    IF /\ g.Positions = defaultPositions
       /\ g.Colors = defaultColors
       /\ slice = defaultSlice
    THEN defaultBags
    ELSE [i \in DOMAIN slice |-> colorBag(slice[i])]

\* results(g, slice)[i][j] is the result of mm.CheckCode(slice[i], slice[j],
\* g.Colors()); the codes of one slice have one length, so there is no error
results(g, slice) ==
    LET b == bags(g, slice)
    IN [i \in DOMAIN slice |->
           [j \in DOMAIN slice |->
               scoreCodes(slice[i], slice[j], g.Colors, b[i], b[j])]]

\* the function res with every value worked out once
tabulated(res) == [i \in DOMAIN res |-> res[i] @@ <<>>] @@ <<>>

\* the positions in slice of the codes the set holds: allPossibleCodes files
\* every code of the slice under its String(), and selectMovesWithResult
\* copies entries
members(set, slice) ==
    LET keys == DOMAIN set
    IN {i \in DOMAIN slice : String(slice[i]) \in keys}

\* some call of CheckCode inside the loop of selectMovesWithResult returns an
\* error (the loop panics)
checkPanics(g, set, code) ==
    \E k \in DOMAIN set : CheckCode(set[k], code, g.Colors).err

\* selectMovesWithResult that copies every entry, whatever its result
selectMovesKeepAll(g, set, code, result) == set

\* selectMovesWithResult that copies the entries of every other result
selectMovesWithOtherResults(g, set, code, result) ==
    LET keep == {k \in DOMAIN set : CheckCode(set[k], code, g.Colors).res # result}
    IN emptyCodeSet @@ [k \in keep |-> set[k]]

\* selectMovesWithResult(S, guess, result) when no call of CheckCode fails
selectMovesWithResult(g, set, code, result) ==
    LET keep == {k \in DOMAIN set : CheckCode(set[k], code, g.Colors).res = result}
    IN emptyCodeSet @@ [k \in keep |-> set[k]]

\* countHits(S, slice[p]): the loop adds one to hitCounts[result] for every s
\* of S; empty is emptyHitMap(), res is results(g, slice) and mem is
\* members(S, slice)
countHits(empty, res, mem, p) ==
    LET row == res[p]
        hits == BagOfAll(LAMBDA i : row[i], SetToBag(mem))
    IN [r \in DOMAIN empty \cup DOMAIN hits |->
           IF r \in DOMAIN hits THEN hits[r] ELSE empty[r]]

\* selectGuesses on the elements of codes
selectGuesses(set, codes) ==
    LET keys == DOMAIN set
        inS == {c \in codes : String(c) \in keys}
        notInS == {c \in codes : String(c) \notin keys}
    IN IF Cardinality(inS) = 0 THEN notInS ELSE inS

\* the largest element of a non-empty set of numbers
Max(nums) == CHOOSE m \in nums : \A o \in nums : o <= m

\* the smallest element of a non-empty set of numbers
Min(nums) == CHOOSE m \in nums : \A o \in nums : m <= o

\* hitmap.maxHits: the best score (the result it belongs to is never read)
maxHits(h) == Max({0} \cup Range(h))

\* Solver.score(S, P) once limiter.Wait has returned: every worker has
\* appended its candidate to the group of its score; res is results(g, slice)
\* and mem is members(S, slice)
score(g, slice, res, mem) ==
    LET empty == emptyHitMap(g)
        scored == {<<maxHits(countHits(empty, res, mem, i)), i>> :
                      i \in DOMAIN slice}
    IN [sc \in {e[1] : e \in scored} |->
           {slice[e[2]] : e \in {d \in scored : d[1] = sc}}]

\* bestScore that takes the group of the largest score
worstScore(scores) == scores[Max(DOMAIN scores)]

\* bestScore: the group of the minimum score
bestScore(scores) == scores[Min(DOMAIN scores)]

\* the largest count among the entries of possible, which is
\* possibleResults()
maxOfPossible(possible, hitcount) ==
    Max({0} \cup {hitcount[possible[i]] : i \in DOMAIN possible})

\* bestGuessOfSet(S, codes) for candidates taken from slice (codes is not
\* empty): the first element of the sorted group codesForMax[minMax]
bestGuessOfSet(g, slice, res, mem, codes) ==
    LET empty == emptyHitMap(g)
        possible == possibleResults(g)
        maxed == {<<maxOfPossible(possible, countHits(empty, res, mem, i)), i>> :
                     i \in {j \in DOMAIN slice : slice[j] \in codes}}
        minMax == Min({e[1] : e \in maxed})
        codesForMax == {slice[e[2]] : e \in {d \in maxed : d[1] = minMax}}
    IN CHOOSE c \in codesForMax : \A d \in codesForMax : ~Less(d, c)

\* the guess that is the smallest hypothesis left, whatever its score
chooseSmallest(g, set, slice, res) ==
    CHOOSE c \in Range(set) : \A d \in Range(set) : ~Less(d, c)

\* Solve, lines 299-316: the guess chosen when more than two hypotheses remain
chooseGuess(g, set, slice, res) ==
    LET mem == members(set, slice)
        scores == score(g, slice, res, mem)
        bestGuesses == bestScore(scores)
        potentialGuesses == selectGuesses(set, bestGuesses)
    IN bestGuessOfSet(g, slice, res, mem, potentialGuesses)

\* initialMoves with 00112 seeded for five positions
initialMovesPairs ==
    [size \in {<<4, 6>>, <<5, 6>>} |->
        IF size = <<4, 6>> THEN <<0, 0, 1, 1>> ELSE <<0, 0, 1, 1, 2>>]

\* the package variable initialMoves as init() leaves it
initialMovesInit ==
    [size \in {<<4, 6>>, <<5, 6>>} |->
        IF size = <<4, 6>> THEN <<0, 0, 1, 1>> ELSE <<0, 0, 1, 2, 3>>]

\* the round that prunes S and leaves guess as it was
afterResultKeepGuess(g, set, slice, res, code, result) ==
    [S |-> selectMovesWithResult(g, set, code, result), guesses |-> {code}]

\* Solve, lines 288-316, after a guess against set that has scored result and
\* did not win: the new S and every value the round can leave in guess (the
\* range loop of the shortcut ends on any element of S)
afterResult(g, set, slice, res, code, result) ==
    LET T == selectMovesWithResult(g, set, code, result)
    IN [S |-> T,
        guesses |-> IF Cardinality(DOMAIN T) <= 2
                    THEN (IF DOMAIN T = {} THEN {code} ELSE Range(T))
                    ELSE {chooseGuess(g, T, slice, res)}]

NoPlan == <<>>

\* the rounds of Solve that follow a guess of code against set, worked out for
\* every result the guess can score: what afterResult gives, and the rounds
\* after that while more than two hypotheses remain.  The rounds depend on
\* set, code and the results alone, so every secret shares them
RECURSIVE planRounds(_, _, _, _, _, _)
planRounds(g, set, slice, res, code, depth) ==
    IF depth <= 0 \/ checkPanics(g, set, code) THEN NoPlan
    ELSE [S |-> set,
          guess |-> code,
          rounds |-> [r \in Range(possibleResults(g)) |->
              LET after == afterResult(g, set, slice, res, code, r)
              IN [S |-> after.S,
                  guesses |-> after.guesses,
                  plan |-> IF Cardinality(DOMAIN after.S) <= 2 THEN NoPlan
                           ELSE planRounds(g, after.S, slice, res,
                                           CHOOSE c \in after.guesses : TRUE,
                                           depth - 1)]] @@ <<>>]

(***************************************************************************)
(* NewSolver and Solver.Solve on one game                                  *)
(***************************************************************************)
\* NewCustomGame: the secret is randomCode(positions, colors)
randomCodes(p, c) == [1..p -> 0..(c - 1)]

InitSolver ==
    /\ pc = "new"
    /\ initialMoves = initialMovesInit
    /\ initialMove = NoCode
    /\ S = <<>> /\ P = <<>> /\ guess = NoCode
    /\ ret = <<>>
    /\ guessArg = <<>> /\ actualArg = <<>> /\ colorsArg = 0
    /\ NoCalls /\ NoGenetic /\ usedCodes = <<>> /\ scoredGuesses = <<>> /\ NoScore /\ NoGeneration /\ NoSpawn

\* games of every size within the bounds
InitSolve ==
    /\ InitSolver
    /\ plan = NoPlan
    /\ \E p \in 1..MaxPositions, c \in 1..MaxColors :
          /\ Pow(c, p) <= MaxCodes
          /\ \E secret \in randomCodes(p, c) :
                 game = NewCustomGameWithSecret(p, c, secret)

\* TestAllPossible: one game of the default size for every code
InitAllPossible ==
    /\ InitSolver
    /\ plan = planRounds(defaultSize, defaultSet, defaultSlice,
                         tabulated(results(defaultSize, defaultSlice)),
                         initialMovesInit[<<defaultPositions, defaultColors>>],
                         MaxTurns)
    /\ \E code \in Range(defaultSet) :
          game = NewCustomGameWithSecret(defaultPositions, defaultColors, code)

\* NewSolver, lines 60-63: the opening move calculated for a size
calculateInitialMove(size) ==
    LET g == NewCustomGameWithSecret(size[1], size[2], NoCode)
        all == allPossibleCodes(g)
    IN bestGuessOfSet(g, all.slice, results(g, all.slice),
                      members(all.set, all.slice), Range(all.slice))

\* initialMoves[size] = move
storeInitialMove(moves, size, move) ==
    [sz \in DOMAIN moves \cup {size} |-> IF sz = size THEN move ELSE moves[sz]]

NewSolver ==
    /\ pc = "new"
    /\ LET size == <<game.Positions, game.Colors>>
       IN /\ initialMoves' =
                IF size \in DOMAIN initialMoves THEN initialMoves
                ELSE storeInitialMove(initialMoves, size,
                                      calculateInitialMove(size))
          /\ initialMove' = initialMoves'[size]
    /\ game' = [game EXCEPT !.TurnsTaken = 0]
    /\ pc' = "solve"
    /\ UNCHANGED <<checkVars, scoredGuesses, callVars, genetic, usedCodes,
                   ret, S, P, guess, plan, scoreVars,
                   generationVars, spawnVars>>

\* Solve up to the loop
SolveBegin ==
    /\ pc = "solve"
    /\ LET all == allPossibleCodes(game)
       IN S' = all.set /\ P' = all.slice
    /\ guess' = initialMove
    /\ pc' = "loop"
    /\ UNCHANGED <<checkVars, scoredGuesses, callVars, genetic, usedCodes,
                   ret, game, initialMoves, initialMove, plan, scoreVars,
                   generationVars, spawnVars>>

\* one iteration of the loop of Solve on the game g: the values it leaves in
\* the variables.  A round that rounds has worked out is read from it
solveRound(g, set, slice, code, rounds) ==
    LET scored == ScoredGuess(g, code)
        same == [pc |-> "panic", S |-> set, guesses |-> {code}, ret |-> <<>>,
                 plan |-> NoPlan]
    IN IF scored.err
       THEN same   \* MustScoredGuess panics
       ELSE IF IsWin(g, scored.res)
       THEN [same EXCEPT !.pc = "done", !.ret = [code |-> code, err |-> "nil"]]
       ELSE IF (IF rounds = NoPlan THEN FALSE
                ELSE /\ rounds.S = set
                     /\ rounds.guess = code
                     /\ scored.res \in DOMAIN rounds.rounds)
       THEN LET after == rounds.rounds[scored.res]
            IN [pc |-> "loop", S |-> after.S, guesses |-> after.guesses,
                ret |-> <<>>, plan |-> after.plan]
       ELSE IF checkPanics(g, set, code)
       THEN same   \* selectMovesWithResult panics
       ELSE LET after == afterResult(g, set, slice, results(g, slice), code,
                                     scored.res)
            IN [pc |-> "loop", S |-> after.S, guesses |-> after.guesses,
                ret |-> <<>>, plan |-> NoPlan]

SolveRound ==
    /\ pc = "loop"
    /\ game.TurnsTaken < MaxTurns
    /\ game' = [game EXCEPT !.TurnsTaken = @ + 1]
    /\ \E out \in {solveRound(game, S, P, guess, plan)} :
          /\ pc' = out.pc
          /\ S' = out.S
          /\ guess' \in out.guesses
          /\ ret' = IF out.pc = "done" THEN out.ret ELSE ret
          /\ plan' = out.plan
    /\ scoredGuesses' =
          IF ScoredGuess(game, guess).err THEN scoredGuesses
          ELSE Append(scoredGuesses,
                      [guess |-> guess, result |-> ScoredGuess(game, guess).res])
    /\ UNCHANGED <<checkVars, callVars, genetic, usedCodes, initialMoves,
                   initialMove, P, scoreVars,
                   generationVars, spawnVars>>

NextSolve == NewSolver \/ SolveBegin \/ SolveRound

SpecSolve == InitSolve /\ [][NextSolve]_vars

SpecAllPossible == InitAllPossible /\ [][NextSolve]_vars

\* NewCustomGameWithSecret takes the secret from its caller: any code of up
\* to MaxPositions positions, of the game's length or not
InitSolveSecret ==
    /\ InitSolver
    /\ plan = NoPlan
    /\ \E p \in 1..MaxPositions, c \in 1..MaxColors :
          /\ Pow(c, p) <= MaxCodes
          /\ \E n \in 0..MaxPositions :
                 \E secret \in CodesOfLen(n, 0..(c - 1)) :
                     game = NewCustomGameWithSecret(p, c, secret)

SpecSolveSecret == InitSolveSecret /\ [][NextSolve]_vars

(***************************************************************************)
(* Properties of CheckCode (SpecCheck)                                     *)
(***************************************************************************)
\* the call of CheckCode has returned
Checked == pc = "checked"

SameLength == Len(guessArg) = Len(actualArg)

\* every color of code is one of the colors 0 .. colors - 1
ColorsInRange(code, colors) == \A i \in DOMAIN code : code[i] \in 0..(colors - 1)

ValidCodes == /\ SameLength
              /\ ColorsInRange(guessArg, colorsArg)
              /\ ColorsInRange(actualArg, colorsArg)

\* how often color occurs among the first n positions of code
RECURSIVE Occurrences(_, _, _)
Occurrences(code, color, n) ==
    IF n = 0 THEN 0
    ELSE Occurrences(code, color, n - 1) + (IF code[n] = color THEN 1 ELSE 0)

\* how many of the first n positions hold the same color in a and b
RECURSIVE Matches(_, _, _)
Matches(a, b, n) ==
    IF n = 0 THEN 0
    ELSE Matches(a, b, n - 1) + (IF a[n] = b[n] THEN 1 ELSE 0)

\* the colors below the color c that a and b share, counted with multiplicity
RECURSIVE Shared(_, _, _)
Shared(a, b, c) ==
    IF c = 0 THEN 0
    ELSE LET x == Occurrences(a, c - 1, Len(a))
             y == Occurrences(b, c - 1, Len(b))
         IN Shared(a, b, c - 1) + (IF x <= y THEN x ELSE y)

\* the results TestGuessLogic expects against the secret 5432
Expected(g) ==
    CASE g = <<1,1,1,1>> -> [Correct |-> 0, HalfCorrect |-> 0]
      [] g = <<1,2,3,4>> -> [Correct |-> 1, HalfCorrect |-> 2]
      [] g = <<1,2,3,5>> -> [Correct |-> 1, HalfCorrect |-> 2]
      [] g = <<4,3,2,1>> -> [Correct |-> 0, HalfCorrect |-> 3]
      [] g = <<5,3,2,1>> -> [Correct |-> 1, HalfCorrect |-> 2]
      [] g = <<5,4,3,1>> -> [Correct |-> 3, HalfCorrect |-> 0]
      [] g = <<5,4,3,2>> -> [Correct |-> 4, HalfCorrect |-> 0]

\* C2: for equal-length codes over the colors 0 .. C-1, CheckCode returns
\* Correct = the number of positions where guess and actual agree and
\* HalfCorrect = the sum over the colors of the smaller of the two occurrence
\* counts, minus Correct; the seven guesses of TestGuessLogic against the
\* secret 5432 with 6 colors score (0,0), (1,2), (1,2), (0,3), (1,2), (3,0), (4,0)
C2_CheckCodeFormula ==
    (Checked /\ ValidCodes) =>
        /\ ret.res.Correct = Matches(guessArg, actualArg, Len(guessArg))
        /\ ret.res.HalfCorrect =
               Shared(guessArg, actualArg, colorsArg) - ret.res.Correct
        /\ (guessArg \in TestGuesses /\ actualArg = TestSecret
               /\ colorsArg = defaultColors)
           => ret.res = Expected(guessArg)

\* the guess 1234 has been scored (1,2) against the secret 5432
C2_Witness ==
    /\ Checked
    /\ guessArg = <<1,2,3,4>> /\ actualArg = TestSecret /\ colorsArg = 6
    /\ ret.res = [Correct |-> 1, HalfCorrect |-> 2]

\* C3: CheckCode returns an error and the zero Result when the two lengths
\* differ, and no error when they are equal
C3_LengthError ==
    Checked =>
        /\ ~SameLength => (ret.err /\ ret.res = [Correct |-> 0, HalfCorrect |-> 0])
        /\ SameLength => ~ret.err

\* a call with a guess shorter than the actual code has returned the error
C3_Witness ==
    /\ Checked
    /\ Len(guessArg) < Len(actualArg)
    /\ ret.err

\* C4: a color outside 0 .. colors-1 in the guess or in the actual code makes
\* CheckCode return an error
C4_OutOfRangeIsError ==
    (Checked /\ ~(ColorsInRange(guessArg, colorsArg)
                    /\ ColorsInRange(actualArg, colorsArg)))
        => ret.err

\* C5: CheckCode gives the same result when its two codes change places
C5_Symmetric ==
    (Checked /\ SameLength) => ret = CheckCode(actualArg, guessArg, colorsArg)

\* two different codes that share a color out of position have been scored
C5_Witness ==
    /\ Checked /\ SameLength
    /\ guessArg # actualArg
    /\ ret.res.HalfCorrect > 0
    /\ \E c \in 0..MaxColorVal :
          Occurrences(guessArg, c, Len(guessArg))
              # Occurrences(actualArg, c, Len(actualArg))

AtFirstRound == pc = "loop" /\ game.TurnsTaken = 0

\* the codes of the size of the game
CodeSpace == [1..game.Positions -> 0..(game.Colors - 1)]

Size(set) == Cardinality(DOMAIN set)

\* C1: on a game of 4 positions and 6 colors, for every secret and every
\* pick of the shortcut, Solve started from the cached opening guess makes at
\* most 5 guesses, does not panic, and returns the secret with a nil error
C1_SolvesInFive ==
    /\ game.TurnsTaken <= 5
    /\ pc = "loop" => game.TurnsTaken < 5
    /\ pc # "panic"
    /\ pc = "done" => (ret.code = game.secretCode /\ ret.err = "nil")

\* a secret that takes all five guesses has been returned
C1_Witness ==
    /\ pc = "done"
    /\ game.Positions = 4 /\ game.Colors = 6
    /\ game.TurnsTaken = 5
    /\ ret.code = game.secretCode

\* C8: allPossibleCodes returns a set of exactly C^P codes, every one of
\* length P with colors 0 .. C-1 and filed under its own String(), and a slice
\* that holds the same C^P codes without a duplicate
C8_AllPossibleCodes ==
    AtFirstRound =>
        /\ Size(S) = Cardinality(CodeSpace)
        /\ Range(S) = CodeSpace
        /\ \A k \in DOMAIN S : k = String(S[k])
        /\ Len(P) = Cardinality(CodeSpace)
        /\ Range(P) = Range(S)
        /\ \A i, j \in DOMAIN P : P[i] = P[j] => i = j

\* the 27 codes of 3 positions and 3 colors have been enumerated
C8_Witness ==
    /\ AtFirstRound
    /\ game.Positions = 3 /\ game.Colors = 3
    /\ Size(S) = 27 /\ Len(P) = 27

\* C9: from one round of Solve to the next S does not grow, and a round that
\* starts with more than 2 hypotheses leaves strictly fewer
C9_NeverGrows ==
    [][(pc = "loop" /\ pc' = "loop") =>
          /\ DOMAIN S' \subseteq DOMAIN S
          /\ \A k \in DOMAIN S' : S'[k] = S[k]
          /\ Size(S) > 2 => Size(S') < Size(S)]_vars

\* the first round on 27 codes has pruned S to fewer, but more than 2, codes
C9_Witness ==
    /\ pc = "loop"
    /\ game.TurnsTaken = 1
    /\ Len(P) = 27
    /\ Size(S) > 2 /\ Size(S) < 27

\* C10: for every size and every secret of the code space of that size, the
\* loop of Solve does not go on: it never panics and never stands at the head
\* of the loop with MaxTurns rounds behind it, so the round that is always
\* there to take ends the run, within MaxTurns rounds, on a result that is
\* the win
C10_Terminates ==
    game.secretCode \in CodeSpace =>
        /\ pc # "panic"
        /\ pc = "loop" => game.TurnsTaken < MaxTurns
        /\ pc = "done" => /\ game.TurnsTaken <= MaxTurns
                          /\ IsWin(game, ScoredGuess(game, ret.code).res)

\* Solve has returned the secret after three or more rounds
C10_Witness ==
    /\ pc = "done"
    /\ game.secretCode \in CodeSpace
    /\ game.TurnsTaken >= 3
    /\ ret.code = game.secretCode

(***************************************************************************)
(* Concurrent calls of NewSolver.  Each call is a goroutine; a step is one *)
(* statement of NewSolver between two points where the scheduler can       *)
(* switch.  The write of a map entry takes a while: it begins (store) and  *)
(* completes (storing).  A read of the map while another goroutine's write *)
(* is in progress is a data race: the Go runtime aborts the process        *)
(* ("concurrent map read and map write") or the read yields the entry or   *)
(* the zero value.                                                         *)
(***************************************************************************)
Calls == 1..MaxCalls

\* the sizes of the games handed to NewSolver: NewCustomGameWithSecret has
\* limited the colors to positions^2
callSizes ==
    {<<g.Positions, g.Colors>> :
        g \in {NewCustomGameWithSecret(p, c, NoCode) :
                  p \in 1..MaxCallSide, c \in 1..MaxCallSide}}
    \cup {<<defaultPositions, defaultColors>>}

InitCalls ==
    /\ pc = "calls"
    /\ initialMoves = initialMovesInit
    /\ initialMutex = 0
    /\ computed = [size \in callSizes |-> 0]
    /\ \E sizes \in [Calls -> callSizes] :
          calls = [p \in Calls |->
                      [pc |-> "lock", size |-> sizes[p], TurnsTaken |-> 1,
                       guess |-> NoCode, initialMove |-> NoCode]]
    /\ ret = <<>> /\ game = <<>> /\ initialMove = NoCode
    /\ S = <<>> /\ P = <<>> /\ guess = NoCode /\ plan = NoPlan
    /\ guessArg = <<>> /\ actualArg = <<>> /\ colorsArg = 0
    /\ NoGenetic /\ usedCodes = <<>> /\ scoredGuesses = <<>> /\ NoScore /\ NoGeneration /\ NoSpawn

callAt(p, label) == pc = "calls" /\ calls[p].pc = label

\* initialMutex.Lock() that does not wait for the mutex to be free
LockAtOnce(p) ==
    /\ callAt(p, "lock")
    /\ initialMutex' = p
    /\ calls' = [calls EXCEPT ![p].pc = "check"]
    /\ UNCHANGED <<pc, checkVars, scoredGuesses, solverVars, genetic,
                   usedCodes, ret, computed, scoreVars,
                   generationVars, spawnVars>>

\* line 57: initialMutex.Lock()
Lock(p) ==
    /\ callAt(p, "lock")
    /\ initialMutex = 0
    /\ initialMutex' = p
    /\ calls' = [calls EXCEPT ![p].pc = "check"]
    /\ UNCHANGED <<pc, checkVars, scoredGuesses, solverVars, genetic,
                   usedCodes, ret, computed, scoreVars,
                   generationVars, spawnVars>>

\* line 58: if _, ok := initialMoves[size]; !ok
CheckMove(p) ==
    /\ callAt(p, "check")
    /\ calls' = [calls EXCEPT ![p].pc =
                    IF calls[p].size \in DOMAIN initialMoves
                    THEN "unlock" ELSE "calculate"]
    /\ UNCHANGED <<pc, checkVars, scoredGuesses, solverVars, genetic,
                   usedCodes, ret, initialMutex, computed, scoreVars,
                   generationVars, spawnVars>>

\* lines 59-65: guess := game.bestGuessOfSet(S, P)
Calculate(p) ==
    /\ callAt(p, "calculate")
    /\ calls' = [calls EXCEPT ![p].pc = "store",
                              ![p].guess = calculateInitialMove(calls[p].size)]
    /\ computed' = [computed EXCEPT ![calls[p].size] = @ + 1]
    /\ UNCHANGED <<pc, checkVars, scoredGuesses, solverVars, genetic,
                   usedCodes, ret, initialMutex, scoreVars,
                   generationVars, spawnVars>>

\* line 66: initialMoves[size] = guess, the write begins
Store(p) ==
    /\ callAt(p, "store")
    /\ calls' = [calls EXCEPT ![p].pc = "storing"]
    /\ UNCHANGED <<pc, checkVars, scoredGuesses, solverVars, genetic,
                   usedCodes, ret, initialMutex, computed, scoreVars,
                   generationVars, spawnVars>>

\* line 66: the write completes
Stored(p) ==
    /\ callAt(p, "storing")
    /\ initialMoves' = storeInitialMove(initialMoves, calls[p].size,
                                        calls[p].guess)
    /\ calls' = [calls EXCEPT ![p].pc = "unlock"]
    /\ UNCHANGED <<pc, checkVars, scoredGuesses, genetic, usedCodes, ret,
                   game,
                   initialMove, S, P, guess, plan, initialMutex, computed, scoreVars,
                   generationVars, spawnVars>>

\* line 68: initialMutex.Unlock()
Unlock(p) ==
    /\ callAt(p, "unlock")
    /\ initialMutex' = 0
    /\ calls' = [calls EXCEPT ![p].pc = "return"]
    /\ UNCHANGED <<pc, checkVars, scoredGuesses, solverVars, genetic,
                   usedCodes, ret, computed, scoreVars,
                   generationVars, spawnVars>>

\* another goroutine's write of the map is in progress
writeInProgress(p) == \E q \in Calls \ {p} : calls[q].pc = "storing"

\* lines 69-73: g.Reset() and the Solver built from initialMoves[size]
Return(p) ==
    /\ callAt(p, "return")
    /\ \/ /\ ~writeInProgress(p)
          /\ calls' = [calls EXCEPT ![p].pc = "done",
                                    ![p].TurnsTaken = 0,
                                    ![p].initialMove =
                                        initialMoves[calls[p].size]]
          /\ pc' = pc
       \/ /\ writeInProgress(p)
          /\ \E move \in {initialMoves[calls[p].size], NoCode} :
                calls' = [calls EXCEPT ![p].pc = "done",
                                       ![p].TurnsTaken = 0,
                                       ![p].initialMove = move]
          /\ pc' = pc
       \/ /\ writeInProgress(p)
          /\ calls' = [calls EXCEPT ![p].TurnsTaken = 0]
          /\ pc' = "fatal"
    /\ UNCHANGED <<checkVars, scoredGuesses, solverVars, genetic, usedCodes,
                   ret,
                   initialMutex, computed, scoreVars,
                   generationVars, spawnVars>>

NextCalls ==
    \E p \in Calls :
        \/ Lock(p)
        \/ CheckMove(p)
        \/ Calculate(p)
        \/ Store(p)
        \/ Stored(p)
        \/ Unlock(p)
        \/ Return(p)

SpecCalls == InitCalls /\ [][NextCalls]_vars

(***************************************************************************)
(* Properties of concurrent NewSolver calls (SpecCalls)                    *)
(***************************************************************************)
\* every call was made for the same size, which init() has not cached
SameUncachedSize ==
    /\ pc \in {"calls", "fatal"}
    /\ \A p, q \in Calls : calls[p].size = calls[q].size
    /\ calls[1].size \notin DOMAIN initialMovesInit

\* the statements of NewSolver between Lock and Unlock
lockedLabels == {"check", "calculate", "store", "storing", "unlock"}

\* C11: when all the concurrent NewSolver calls are for one size that has no
\* cached opening move, the move is calculated once: at most one calculation
\* ever happens, a call is between Lock and Unlock only while it holds the
\* mutex (the others wait at Lock), the process is not aborted, every call
\* that has returned holds the move stored in the cache, so all of them hold
\* the same move, and once the first has returned the count is exactly one
C11_ComputedOnce ==
    SameUncachedSize =>
        /\ pc # "fatal"
        /\ \A size \in DOMAIN computed : computed[size] <= 1
        /\ \A p \in Calls : calls[p].pc \in lockedLabels => initialMutex = p
        /\ \A p \in Calls :
              calls[p].pc = "done" =>
                  /\ computed[calls[p].size] = 1
                  /\ calls[p].size \in DOMAIN initialMoves
                  /\ calls[p].initialMove = initialMoves[calls[p].size]
        /\ \A p, q \in Calls :
              calls[p].pc = "done" /\ calls[q].pc = "done" =>
                  calls[p].initialMove = calls[q].initialMove

C11_Witness ==
    /\ SameUncachedSize
    /\ calls[1].size = <<2, 2>>
    /\ \A p \in Calls : calls[p].pc = "done" /\ calls[p].initialMove # NoCode
    /\ computed[<<2, 2>>] = 1

\* the statements of NewSolver that read or write the map initialMoves: the
\* lookup of line 58, the assignment of line 66 and the lookup of line 72
mapAccessLabels == {"check", "store", "storing", "return"}

\* C12: a call that is at a read or a write of initialMoves holds
\* initialMutex, and no call is at a read of the map while another call's
\* write of it is in progress
C12_MapAccessUnderLock ==
    pc = "calls" =>
        /\ \A p \in Calls :
              calls[p].pc \in mapAccessLabels => initialMutex = p
        /\ \A p, q \in Calls :
              ~(/\ p # q
                /\ calls[p].pc \in {"check", "return"}
                /\ calls[q].pc = "storing")

(***************************************************************************)
(* Properties of Solve on a game with any secret (SpecSolveSecret)         *)
(***************************************************************************)
\* C13: a solve in which the oracle's ScoredGuess fails does not crash:
\* MustScoredGuess never panics, and a Solve that returns on a game whose
\* secret has not the game's length returns a non-nil error
C13_OracleErrorReturned ==
    /\ pc # "panic"
    /\ (pc = "done" /\ Len(game.secretCode) # game.Positions) =>
           ret.err # "nil"

(***************************************************************************)
(* Package genetic: Solver.Solve.  The random sources (rand, the order of  *)
(* a range over a map) are choices among their outcomes.  A population is  *)
(* a set of distinct codes of the game's code space: InitializePopulation  *)
(* fills it with RandomCode(), Generate keeps parents and adds the         *)
(* children of Spawn, which are of P positions with colors below C.  The   *)
(* codes the random sources yield are bounded to drawnCodes.               *)
(***************************************************************************)
initialPopulationSize == 150
fitnessThreshold == 0

\* the codes rand yields for p positions and c colors
drawnCodes(p, c) == {[i \in 1..p |-> (i + k) % c] : k \in 0..(MaxDraws - 1)}

maxGuesses(g) == g.Positions * g.Positions

InitialGuess(g) ==
    CASE g.Positions = 4 -> <<0, 0, 1, 2>>
      [] g.Positions = 5 -> <<0, 0, 1, 2, 3>>
      [] g.Positions = 6 -> <<0, 0, 1, 1, 2, 3>>
      [] OTHER -> NoCode

absi(v) == IF v < 0 THEN -v ELSE v

\* the loop of fitness from q on: the pair (sumX, sumY).  CheckCode's error
\* is dropped, its Result is then the zero Result
RECURSIVE fitnessSums(_, _, _, _)
fitnessSums(g, s, c, q) ==
    IF q > s.move THEN <<0, 0>>
    ELSE LET resQ == s.results[q]
             resP == CheckCode(c, s.guesses[q], g.Colors).res
             rest == fitnessSums(g, s, c, q + 1)
         IN <<absi(resP.Correct - resQ.Correct) + rest[1],
              absi(resP.HalfCorrect - resQ.HalfCorrect) + rest[2]>>

\* fitness without the term b*P*(move - 1)
fitnessOfSums(g, s, c) ==
    LET sums == fitnessSums(g, s, c, 1)
    IN (2 * sums[1]) + sums[2]

\* Solver.fitness with a = 2 and b = 2; every term is a whole number
fitness(g, s, c) ==
    LET sums == fitnessSums(g, s, c, 1)
    IN (2 * sums[1]) + sums[2] + (2 * g.Positions * (s.move - 1))

\* lines 105-113: Ei after the members of the population pop have been tested
collect(g, s, E, pop) ==
    E \cup {c \in pop : fitness(g, s, c) <= fitnessThreshold}

\* BestCandidate(p): the codes it can return, random being RandomCode()
BestCandidate(p, random) == IF p # {} THEN p ELSE random

\* the error of line 75
moveLimitError(n) == "didn't find solution in " \o ToString(n) \o " moves"

\* the test of line 74 with 10 for 9
moveLimitTen(s) == s.move >= 10

\* line 74: if s.move >= 9
moveLimit(s) == s.move >= 9

\* NewCustomGame for the genetic solver: sizes within the bounds, the secret
\* is randomCode(positions, colors)
InitGenetic ==
    /\ pc = "genetic.new"
    /\ \E p \in 1..MaxGeneticPositions, c \in 1..MaxGeneticColors :
          \E secret \in drawnCodes(p, c) :
              game = NewCustomGameWithSecret(p, c, secret)
    /\ genetic = <<>>
    /\ guess = NoCode /\ ret = <<>>
    /\ initialMoves = <<>> /\ initialMove = NoCode
    /\ S = <<>> /\ P = <<>> /\ plan = NoPlan
    /\ guessArg = <<>> /\ actualArg = <<>> /\ colorsArg = 0
    /\ NoCalls /\ usedCodes = <<>> /\ scoredGuesses = <<>> /\ NoScore /\ NoGeneration /\ NoSpawn

\* genetic.NewSolver
GeneticNewSolver ==
    /\ pc = "genetic.new"
    /\ genetic' = [move |-> 0,
                   guesses |-> [i \in 0..(maxGuesses(game) - 1) |-> NoCode],
                   results |-> [i \in 0..(maxGuesses(game) - 1) |-> NoResult]]
    /\ pc' = "genetic.solve"
    /\ UNCHANGED <<checkVars, scoredGuesses, solverVars, callVars, usedCodes,
                   ret, scoreVars,
                   generationVars, spawnVars>>

\* Solve up to the loop
GeneticSolveBegin ==
    /\ pc = "genetic.solve"
    /\ guess' = InitialGuess(game)
    /\ pc' = "genetic.loop"
    /\ UNCHANGED <<checkVars, scoredGuesses, callVars, usedCodes, genetic,
                   ret, game,
                   initialMoves, initialMove, S, P, plan, scoreVars,
                   generationVars, spawnVars>>

\* one iteration of the loop of Solve up to the generation loop, lines 74-90
GeneticMove ==
    /\ pc = "genetic.loop"
    /\ LET moved == [genetic EXCEPT !.move = @ + 1]
           scored == ScoredGuess(game, guess)
           filed == [moved EXCEPT !.guesses[moved.move] = guess,
                                  !.results[moved.move] = scored.res]
           space == CodesOfLen(game.Positions, 0..(game.Colors - 1))
           pool == drawnCodes(game.Positions, game.Colors)
       IN IF moveLimit(genetic)
          THEN /\ ret' = [code |-> NoCode, err |-> moveLimitError(genetic.move)]
               /\ pc' = "done"
               /\ UNCHANGED <<genetic, game, guess, generationVars, spawnVars>>
          ELSE IF moved.move \notin DOMAIN moved.guesses
          THEN \* s.guesses[s.move]: index out of range
               /\ pc' = "panic"
               /\ genetic' = moved
               /\ UNCHANGED <<ret, game, guess, generationVars, spawnVars>>
          ELSE /\ genetic' = filed
               /\ game' = [game EXCEPT !.TurnsTaken = @ + 1]
               /\ IF scored.err
                  THEN /\ ret' = [code |-> NoCode,
                                  err |-> "codes are not equal length"]
                       /\ pc' = "done"
                       /\ UNCHANGED <<guess, generationVars, spawnVars>>
                  ELSE IF IsWin(game, scored.res)
                  THEN /\ ret' = [code |-> guess, err |-> "nil"]
                       /\ pc' = "done"
                       /\ UNCHANGED <<guess, generationVars, spawnVars>>
                  ELSE IF Cardinality(space) < initialPopulationSize
                  THEN \* InitializePopulation never finds size distinct codes
                       /\ pc' = "genetic.initializing"
                       /\ Ei' = {}
                       /\ UNCHANGED <<ret, guess, population, generation>>
                  ELSE \* lines 89-90: the population holds the codes drawn
                       /\ Ei' = {}
                       /\ population' = pool
                       /\ generation' = 0
                       /\ pc' = "genetic.generations"
                       /\ UNCHANGED <<ret, guess>>
    /\ UNCHANGED <<checkVars, scoredGuesses, callVars, usedCodes,
                   initialMoves, initialMove,
                   S, P, plan, scoreVars, spawnVars>>

\* the generation loop, lines 94-117: the populations that Generate returns
\* hold any codes of pool, and every member of each is tested
GeneticGenerations ==
    /\ pc = "genetic.generations"
    /\ \E pop \in SUBSET drawnCodes(game.Positions, game.Colors) :
          /\ population' = pop
          /\ Ei' = collect(game, genetic, Ei, pop)
    /\ pc' = "genetic.best"
    /\ UNCHANGED <<checkVars, scoredGuesses, callVars, usedCodes, genetic,
                   ret, game, guess, initialMoves, initialMove, S, P, plan,
                   scoreVars, spawnVars, generation>>

\* line 121 and the end of the body of the loop: population and h are
\* variables of the body
GeneticBest ==
    /\ pc = "genetic.best"
    /\ guess' \in BestCandidate(Ei, drawnCodes(game.Positions, game.Colors))
    /\ population' = {}
    /\ generation' = 0
    /\ pc' = "genetic.loop"
    /\ UNCHANGED <<checkVars, scoredGuesses, callVars, usedCodes, genetic,
                   ret, game, initialMoves, initialMove, S, P, plan,
                   scoreVars, spawnVars, Ei>>

NextGenetic ==
    \/ GeneticNewSolver
    \/ GeneticSolveBegin
    \/ GeneticMove
    \/ GeneticGenerations
    \/ GeneticBest

SpecGenetic == InitGenetic /\ [][NextGenetic]_vars

(***************************************************************************)
(* Properties of the genetic solver (SpecGenetic)                          *)
(***************************************************************************)
\* the genetic Solve is running or has ended
InGenetic == pc \in {"genetic.loop", "genetic.generations", "genetic.best",
                     "genetic.initializing", "done", "panic"}
                /\ genetic # <<>>

\* the moves of the genetic solver made so far
Moves == 1..genetic.move

\* C14: the genetic Solve submits at most 9 guesses: move and TurnsTaken never
\* exceed 9, and when 9 guesses have been scored and the loop is entered again
\* with none of them a win, the only step is the return of a nil code with
\* the error naming 9 moves; a Solve that has returned that error submitted
\* exactly 9 guesses
C14_NineGuesses ==
    InGenetic =>
        /\ genetic.move <= 9
        /\ game.TurnsTaken <= 9
        /\ (pc = "done" /\ ret.err = moveLimitError(9)) =>
               /\ ret.code = NoCode
               /\ genetic.move = 9 /\ game.TurnsTaken = 9
               /\ \A q \in Moves : ~IsWin(game, genetic.results[q])
        /\ (pc = "done" /\ genetic.move = 9
                /\ ~IsWin(game, genetic.results[9])) =>
               ret = [code |-> NoCode, err |-> moveLimitError(9)]
        /\ (pc = "genetic.loop" /\ genetic.move = 9) =>
               ~IsWin(game, genetic.results[9])

C14_Witness ==
    /\ InGenetic /\ pc = "done"
    /\ genetic.move = 9 /\ game.TurnsTaken = 9
    /\ ret = [code |-> NoCode, err |-> "didn't find solution in 9 moves"]

\* C15: a genetic Solve that returns a code with a nil error returns the
\* secret, which is the guess of the last move, scored (P, 0)
C15_NoFalseWin ==
    (InGenetic /\ pc = "done" /\ ret.err = "nil") =>
        /\ ret.code = game.secretCode
        /\ genetic.move >= 1
        /\ ret.code = genetic.guesses[genetic.move]
        /\ genetic.results[genetic.move] =
               [Correct |-> game.Positions, HalfCorrect |-> 0]

C15_Witness ==
    /\ InGenetic /\ pc = "done" /\ ret.err = "nil"
    /\ genetic.move >= 3
    /\ ret.code = game.secretCode

\* C16: on a game of 4 positions and 6 colors the genetic Solve takes no more
\* than 5 turns and returns the secret with a nil error
C16_GeneticSolvesInFive ==
    (InGenetic /\ game.Positions = 4 /\ game.Colors = 6) =>
        /\ game.TurnsTaken <= 5
        /\ pc # "panic"
        /\ pc = "done" => (ret.err = "nil" /\ ret.code = game.secretCode)

(***************************************************************************)
(* Package mastermind, solver.go: Solve(game).  P is indexed here by the   *)
(* order in which allPossibleCodes writes its codes; Solve itself reads P  *)
(* only as a set.  The counter pass is written and never read.             *)
(***************************************************************************)
initialGuess(g) ==
    [i \in 1..g.Positions |-> IF (i - 1) < g.Positions \div 2 THEN 0 ELSE 1]

\* line 123: usedCodes[guess.String()] = guess
useCode(used, code) ==
    emptyCodeSet @@ [k \in DOMAIN used \cup {String(code)} |->
                        IF k = String(code) THEN code ELSE used[k]]

\* line 124: delete(S, guess.String())
deleteCode(set, code) ==
    emptyCodeSet @@ [k \in DOMAIN set \ {String(code)} |-> set[k]]

\* lines 136-140: some CheckCode of the pruning loop returns an error
pruneFails(g, set, code) ==
    \E k \in DOMAIN set : CheckCode(set[k], code, g.Colors).err

\* lines 136-147: S after the pruning loop when no CheckCode fails
pruneCodes(g, set, code, result) ==
    LET keep == {k \in DOMAIN set : CheckCode(set[k], code, g.Colors).res = result}
    IN emptyCodeSet @@ [k \in keep |-> set[k]]

\* lines 158-209: the map guesses once limiter.Wait has returned; the codes of
\* usedCodes are skipped (a code is in usedCodes under its own String())
scoreUnused(g, slice, res, mem, used) ==
    LET empty == emptyHitMap(g)
        tried == Range(used)
        scored == {<<maxHits(countHits(empty, res, mem, i)), i>> :
                      i \in {j \in DOMAIN slice : slice[j] \notin tried}}
    IN [cnt \in {e[1] : e \in scored} |->
           {slice[e[2]] : e \in {d \in scored : d[1] = cnt}}]

\* lines 211-222: bestGuesses, the group whose score len(S) - cnt is the
\* largest one above 0 (nil when there is none)
bestGuessesOf(scored, n) ==
    LET above == {cnt \in DOMAIN scored : n - cnt > 0}
    IN IF above = {} THEN {} ELSE scored[Min(above)]

\* lines 228-245: P1
firstChoices(set, codes) ==
    LET keys == DOMAIN set
        inS == {c \in codes : String(c) \in keys}
        notInS == {c \in codes : String(c) \notin keys}
    IN IF Cardinality(inS) = 0 THEN notInS ELSE inS

\* lines 247-277: codesForMax[minMax][0] after the sort; the index panics when
\* no candidate has a maximum below 1296
leastMaxOf(g, slice, res, mem, codes) ==
    LET empty == emptyHitMap(g)
        possible == possibleResults(g)
        maxed == {<<maxOfPossible(possible, countHits(empty, res, mem, i)), i>> :
                     i \in {j \in DOMAIN slice : slice[j] \in codes}}
        minMax == Min({1296} \cup {e[1] : e \in maxed})
        codesForMax == {slice[e[2]] : e \in {d \in maxed : d[1] = minMax}}
    IN IF codesForMax = {}
       THEN [panic |-> TRUE, guess |-> NoCode]
       ELSE [panic |-> FALSE,
             guess |-> CHOOSE c \in codesForMax :
                           \A d \in codesForMax : ~Less(d, c)]

\* the next guess that is the smallest hypothesis left, whatever its score
nextSmallest(g, set, slice, res, used) ==
    [panic |-> FALSE,
     guess |-> CHOOSE c \in Range(set) : \A d \in Range(set) : ~Less(d, c)]

\* lines 156-277: the next guess when more than two hypotheses remain
nextGuess(g, set, slice, res, used) ==
    LET mem == members(set, slice)
        scored == scoreUnused(g, slice, res, mem, used)
        bestGuesses == bestGuessesOf(scored, Cardinality(DOMAIN set))
        P1 == firstChoices(set, bestGuesses)
    IN leastMaxOf(g, slice, res, mem, P1)

\* lines 134-277 after a guess that scored result and did not win: set and
\* used are S and usedCodes as lines 123-124 left them.  The new S, every
\* value the pass can leave in guess, and whether it panics
afterPass(g, set, slice, res, used, code, result) ==
    LET T == pruneCodes(g, set, code, result)
        next == nextGuess(g, T, slice, res, used)
    IN IF Cardinality(DOMAIN T) <= 2
       THEN [S |-> T, panic |-> FALSE,
             guesses |-> IF DOMAIN T = {} THEN {code} ELSE Range(T)]
       ELSE [S |-> T, panic |-> next.panic, guesses |-> {next.guess}]

\* the passes of Solve that follow a guess of code with S = set and
\* usedCodes = used, worked out for every result the guess can score
RECURSIVE planPasses(_, _, _, _, _, _, _)
planPasses(g, set, slice, res, used, code, depth) ==
    LET used1 == useCode(used, code)
        S1 == deleteCode(set, code)
    IN IF depth <= 0 \/ pruneFails(g, S1, code) THEN NoPlan
       ELSE [S |-> set,
             guess |-> code,
             rounds |-> [r \in Range(possibleResults(g)) |->
                 LET after == afterPass(g, S1, slice, res, used1, code, r)
                 IN [S |-> after.S,
                     panic |-> after.panic,
                     guesses |-> after.guesses,
                     plan |-> IF Cardinality(DOMAIN after.S) <= 2 \/ after.panic
                              THEN NoPlan
                              ELSE planPasses(g, after.S, slice, res, used1,
                                              CHOOSE c \in after.guesses : TRUE,
                                              depth - 1)]] @@ <<>>]

\* TestSolver: a game of the default size for every code, setSecretCode(code)
InitTestSolver ==
    /\ pc = "mm.solve"
    /\ plan = planPasses(defaultSize, defaultSet, defaultSlice,
                         tabulated(results(defaultSize, defaultSlice)),
                         emptyCodeSet, initialGuess(defaultSize), MaxTurns)
    /\ \E code \in Range(defaultSet) :
          game = NewCustomGameWithSecret(defaultPositions, defaultColors, code)
    /\ S = <<>> /\ P = <<>> /\ guess = NoCode /\ usedCodes = <<>>
    /\ ret = <<>>
    /\ initialMoves = <<>> /\ initialMove = NoCode
    /\ guessArg = <<>> /\ actualArg = <<>> /\ colorsArg = 0
    /\ NoCalls /\ NoGenetic /\ scoredGuesses = <<>> /\ NoScore /\ NoGeneration /\ NoSpawn

\* Solve up to the loop
MmSolveBegin ==
    /\ pc = "mm.solve"
    /\ LET all == allPossibleCodes(game)
       IN S' = all.set /\ P' = all.slice
    /\ usedCodes' = emptyCodeSet
    /\ guess' = initialGuess(game)
    /\ pc' = "mm.loop"
    /\ UNCHANGED <<checkVars, scoredGuesses, callVars, genetic, ret, game,
                   initialMoves,
                   initialMove, plan, scoreVars,
                   generationVars, spawnVars>>

\* one pass of the loop of Solve on the game g: the values it leaves in the
\* variables.  A pass that rounds has worked out is read from it
solvePass(g, set, slice, used, code, rounds) ==
    LET used1 == useCode(used, code)
        S1 == deleteCode(set, code)
        scored == ScoredGuess(g, code)
        same == [pc |-> "done", S |-> S1, used |-> used1, guesses |-> {code},
                 ret |-> <<>>, plan |-> NoPlan]
    IN IF scored.err
       THEN [same EXCEPT !.ret = [code |-> NoCode, err |-> "bad guess"]]
       ELSE IF IsWin(g, scored.res)
       THEN [same EXCEPT !.ret = [code |-> code, err |-> "nil"]]
       ELSE IF (IF rounds = NoPlan THEN FALSE
                ELSE /\ rounds.S = set
                     /\ rounds.guess = code
                     /\ scored.res \in DOMAIN rounds.rounds)
       THEN LET after == rounds.rounds[scored.res]
            IN [pc |-> IF after.panic THEN "panic" ELSE "mm.loop",
                S |-> after.S, used |-> used1, guesses |-> after.guesses,
                ret |-> <<>>, plan |-> after.plan]
       ELSE IF pruneFails(g, S1, code)
       THEN [same EXCEPT !.ret = [code |-> NoCode,
                                  err |-> "codes are not equal length"]]
       ELSE LET after == afterPass(g, S1, slice, results(g, slice), used1,
                                   code, scored.res)
            IN [pc |-> IF after.panic THEN "panic" ELSE "mm.loop",
                S |-> after.S, used |-> used1, guesses |-> after.guesses,
                ret |-> <<>>, plan |-> NoPlan]

MmSolvePass ==
    /\ pc = "mm.loop"
    /\ game.TurnsTaken < MaxTurns
    /\ game' = [game EXCEPT !.TurnsTaken = @ + 1]
    /\ \E out \in {solvePass(game, S, P, usedCodes, guess, plan)} :
          /\ pc' = out.pc
          /\ S' = out.S
          /\ usedCodes' = out.used
          /\ guess' \in out.guesses
          /\ ret' = IF out.pc = "done" THEN out.ret ELSE ret
          /\ plan' = out.plan
    /\ UNCHANGED <<checkVars, scoredGuesses, callVars, genetic, initialMoves,
                   initialMove, P, scoreVars,
                   generationVars, spawnVars>>

NextMmSolve == MmSolveBegin \/ MmSolvePass

SpecTestSolver == InitTestSolver /\ [][NextMmSolve]_vars

(***************************************************************************)
(* Properties of mastermind.Solve (SpecTestSolver)                         *)
(***************************************************************************)
\* C17: for every secret of the 6^4 code space, mastermind.Solve(game) scores
\* at most 5 guesses, does not panic, and returns the secret with a nil
\* error: TurnsTaken never exceeds 5, the loop is never entered again after a
\* fifth guess, and every return hands back the secret
C17_PackageSolveInFive ==
    pc \in {"mm.loop", "done", "panic"} =>
        /\ game.TurnsTaken <= 5
        /\ pc = "mm.loop" => game.TurnsTaken < 5
        /\ pc # "panic"
        /\ pc = "done" => (ret.code = game.secretCode /\ ret.err = "nil")

C17_Witness ==
    /\ pc = "done"
    /\ usedCodes # <<>> /\ String(<<0, 0, 1, 1>>) \in DOMAIN usedCodes
    /\ game.TurnsTaken = 5
    /\ ret.code = game.secretCode
    /\ game.secretCode = <<2, 5, 2, 1>>

(***************************************************************************)
(* Properties of the rounds of the minimax Solve (SpecSolve)               *)
(***************************************************************************)
\* Solve is between two rounds, at least one guess has been scored
AfterPruning == pc = "loop" /\ game.TurnsTaken >= 1

\* the feedback of CheckCode for the guess p against the code s
Feedback(p, s) == CheckCode(p, s, game.Colors).res

\* the codes of the code space that score, against every guess submitted so
\* far, the result the oracle returned for that guess
ConsistentCodes ==
    {c \in CodeSpace :
        \A i \in DOMAIN scoredGuesses :
            Feedback(c, scoredGuesses[i].guess) = scoredGuesses[i].result}

\* C18: after every pruning step S holds exactly the codes of the code space
\* that are consistent with every guess scored so far (one per turn taken),
\* each under its own String(); and while Solve runs on a secret of the code
\* space, the secret is in S
C18_ConsistentSet ==
    /\ AfterPruning =>
          /\ Len(scoredGuesses) = game.TurnsTaken
          /\ Range(S) = ConsistentCodes
          /\ \A k \in DOMAIN S : k = String(S[k])
    /\ (pc = "loop" /\ game.secretCode \in CodeSpace) =>
          game.secretCode \in Range(S)

C18_Witness ==
    /\ AfterPruning
    /\ game.secretCode \in CodeSpace
    /\ Len(scoredGuesses) = 2
    /\ scoredGuesses[1].guess # scoredGuesses[2].guess
    /\ Size(S) > 1 /\ Size(S) < Cardinality(CodeSpace)
    /\ game.secretCode \in Range(S)

\* the worst-case score of the candidate p: the size of the largest group of
\* hypotheses of S that p gives one feedback value (S is not empty)
WorstCase(p) ==
    LET fb == [s \in Range(S) |-> Feedback(p, s)] @@ <<>>
        sizes == {Cardinality({s \in Range(S) : fb[s] = f}) : f \in Range(fb)}
    IN CHOOSE n \in sizes : \A m \in sizes : m <= n

\* the worst-case score of every candidate of P
WorstCases == [p \in Range(P) |-> WorstCase(p)] @@ <<>>

\* the candidates with the least worst-case score in the table w
Optimal(w) == {p \in DOMAIN w : \A q \in DOMAIN w : w[p] <= w[q]}

\* the optimal candidates that are hypotheses of S if there is one, else all
\* the optimal candidates
Preferred(optimal) ==
    IF optimal \cap Range(S) # {} THEN optimal \cap Range(S) ELSE optimal

\* C19: after a pruning that leaves more than two hypotheses, the guess chosen
\* for the next round has the least worst-case score of all the codes of P
C19_MinimaxGuess ==
    (AfterPruning /\ Size(S) > 2) =>
        /\ guess \in Range(P)
        /\ LET w == WorstCases
           IN \A p \in Range(P) : w[guess] <= w[p]

\* no optimal candidate is a hypothesis of S
C19_Witness ==
    /\ AfterPruning /\ Size(S) > 2
    /\ Len(P) = 64
    /\ guess \notin Range(S)
    /\ LET w == WorstCases
       IN \E p \in Range(S) : w[guess] < w[p]

\* String() of a comes before String() of b, or is the same
Precedes(a, b) ==
    LET s == String(a)
        t == String(b)
    IN \/ \E i \in 1..Len(s) :
             /\ i <= Len(t)
             /\ \A j \in 1..(i - 1) : s[j] = t[j]
             /\ s[i] < t[i]
       \/ /\ Len(s) <= Len(t)
          /\ \A j \in 1..Len(s) : s[j] = t[j]

ConsistentAfter(k) ==
    {c \in CodeSpace :
        \A i \in 1..k :
            Feedback(c, scoredGuesses[i].guess) = scoredGuesses[i].result}

\* the k-th scored guess did not win, so S was pruned after it
PrunedAfter(k) ==
    /\ k \in DOMAIN scoredGuesses
    /\ ~IsWin(game, scoredGuesses[k].result)

\* the guess that followed the k-th pruning
GuessAfter(k) ==
    IF k < Len(scoredGuesses) THEN scoredGuesses[k + 1].guess ELSE guess

\* C21: when a pruning leaves 1 or 2 hypotheses in S, the next guess is one of
\* them, and Solve wins with at most as many further guesses as hypotheses
\* were left: no more are ever scored, and once that many are scored Solve has
\* returned the winning guess
C21_Shortcut ==
    /\ (AfterPruning /\ Size(S) \in {1, 2}) => guess \in Range(S)
    /\ pc \in {"loop", "done"} =>
          \A k \in DOMAIN scoredGuesses :
              LET left == Cardinality(ConsistentAfter(k))
                  further == Len(scoredGuesses) - k
              IN (PrunedAfter(k) /\ left \in {1, 2}) =>
                    /\ GuessAfter(k) \in ConsistentAfter(k)
                    /\ further <= left
                    /\ further = left =>
                          /\ pc = "done"
                          /\ IsWin(game, scoredGuesses[Len(scoredGuesses)].result)

\* the same for the games whose secret is a code of their code space
C21_ShortcutInCodeSpace == game.secretCode \in CodeSpace => C21_Shortcut

\* two hypotheses were left, the first one picked lost and the second one won
C21_Witness ==
    /\ pc = "done"
    /\ game.secretCode \in CodeSpace
    /\ \E k \in DOMAIN scoredGuesses :
          /\ PrunedAfter(k)
          /\ Cardinality(ConsistentAfter(k)) = 2
          /\ Len(scoredGuesses) = k + 2

(***************************************************************************)
(* One call of Solver.score(S, P).  The range loop hands one closure per   *)
(* candidate to limiter.Go; each closure is a goroutine (a worker).  A     *)
(* step of a worker is what it does between two points where the          *)
(* scheduler can switch.  The limiter is package rn/parallel: its Go,      *)
(* Locked and Wait are modelled by the guarantees the specification gives  *)
(* for them.  The schedules explored keep at most MaxInFlight workers      *)
(* between start and finish.                                               *)
(***************************************************************************)
\* parallel.NewLimiter: no closure holds the combining region
NewLimiter == [held |-> 0]

\* the workers that limiter.Go has started and that have not returned
inFlight(w) == {i \in DOMAIN w : w[i].pc \notin {"new", "done"}}

\* limiter.Go starts the closure at once
limiterAdmits(w) == Cardinality(inFlight(w)) < MaxInFlight

\* limiter.Locked lets one closure at a time into the combining region
limiterFree(l) == l.held = 0

\* limiter.Wait returns when every closure handed to Go has returned
limiterWaitReturns(w) == \A i \in DOMAIN w : w[i].pc = "done"

\* Solve has scored its first guess and pruned S to more than two hypotheses:
\* it is about to call score(S, P), line 300
InitScore ==
    /\ pc = "score"
    /\ ret = <<>>
    /\ guessArg = <<>> /\ actualArg = <<>> /\ colorsArg = 0
    /\ NoCalls /\ NoGenetic /\ usedCodes = <<>> /\ NoScore /\ NoGeneration /\ NoSpawn
    /\ plan = NoPlan
    /\ \E p \in 1..MaxPositions, c \in 1..MaxColors :
          /\ Pow(c, p) <= MaxScoreCodes
          /\ \E secret \in randomCodes(p, c) :
                LET g == NewCustomGameWithSecret(p, c, secret)
                    size == <<g.Positions, g.Colors>>
                    all == allPossibleCodes(g)
                    first == calculateInitialMove(size)
                    scored == ScoredGuess(g, first)
                    T == selectMovesWithResult(g, all.set, first, scored.res)
                IN /\ ~IsWin(g, scored.res)
                   /\ Cardinality(DOMAIN T) > 2
                   /\ game = [g EXCEPT !.TurnsTaken = 1]
                   /\ initialMoves = storeInitialMove(initialMovesInit, size, first)
                   /\ initialMove = first
                   /\ guess = first
                   /\ S = T
                   /\ P = all.slice
                   /\ scoredGuesses = <<[guess |-> first, result |-> scored.res]>>

\* lines 193-194
ScoreBegin ==
    /\ pc = "score"
    /\ limiter' = NewLimiter
    /\ guesses' = <<>>
    /\ workers' = [i \in DOMAIN P |-> [pc |-> "new", score |-> 0]]
    /\ pc' = "score.range"
    /\ UNCHANGED <<checkVars, solverVars, callVars, genetic, usedCodes, generationVars,
                   scoredGuesses, ret, spawnVars>>

\* lines 196-198: the range loop starts the worker of the next candidate
ScoreGo ==
    /\ pc = "score.range"
    /\ \E i \in DOMAIN workers :
          /\ workers[i].pc = "new"
          /\ \A j \in 1..(i - 1) : workers[j].pc # "new"
          /\ limiterAdmits(workers)
          /\ workers' = [workers EXCEPT ![i].pc = "countHits"]
    /\ UNCHANGED <<pc, checkVars, solverVars, callVars, genetic, usedCodes, generationVars,
                   scoredGuesses, ret, limiter, guesses, spawnVars>>

\* the range loop is over: line 216
ScoreRangeEnd ==
    /\ pc = "score.range"
    /\ \A i \in DOMAIN workers : workers[i].pc # "new"
    /\ pc' = "score.wait"
    /\ UNCHANGED <<checkVars, solverVars, callVars, genetic, usedCodes, generationVars,
                   scoredGuesses, ret, scoreVars,
                   generationVars, spawnVars>>

\* lines 200-203: the worker's own score, from S alone
workerScore(i) ==
    maxHits(countHits(emptyHitMap(game), results(game, P), members(S, P), i))

WorkerCountHits(i) ==
    /\ workers[i].pc = "countHits"
    /\ workers' = [workers EXCEPT ![i].score = workerScore(i), ![i].pc = "Locked"]
    /\ UNCHANGED <<pc, checkVars, solverVars, callVars, genetic, usedCodes, generationVars,
                   scoredGuesses, ret, limiter, guesses, spawnVars>>

\* line 205: the worker enters the combining region
WorkerLocked(i) ==
    /\ workers[i].pc = "Locked"
    /\ limiterFree(limiter)
    /\ limiter' = [limiter EXCEPT !.held = i]
    /\ workers' = [workers EXCEPT ![i].pc = "ensure"]
    /\ UNCHANGED <<pc, checkVars, solverVars, callVars, genetic, usedCodes, generationVars,
                   scoredGuesses, ret, guesses, spawnVars>>

\* the group is set to codeSlice{} whether it is there or not
ensureGroupAlways(groups, sc) ==
    [k \in DOMAIN groups \cup {sc} |-> IF k = sc THEN <<>> ELSE groups[k]]

\* lines 206-208
ensureGroup(groups, sc) ==
    IF sc \in DOMAIN groups THEN groups
    ELSE [k \in DOMAIN groups \cup {sc} |-> IF k = sc THEN <<>> ELSE groups[k]]

WorkerEnsure(i) ==
    /\ workers[i].pc = "ensure"
    /\ guesses' = ensureGroup(guesses, workers[i].score)
    /\ workers' = [workers EXCEPT ![i].pc = "append"]
    /\ UNCHANGED <<pc, checkVars, solverVars, callVars, genetic, usedCodes, generationVars,
                   scoredGuesses, ret, limiter, spawnVars>>

\* lines 209-212: the append, the end of the combining region and of the worker
WorkerAppend(i) ==
    /\ workers[i].pc = "append"
    /\ guesses' = [guesses EXCEPT ![workers[i].score] = Append(@, P[i])]
    /\ limiter' = [limiter EXCEPT !.held = 0]
    /\ workers' = [workers EXCEPT ![i].pc = "done"]
    /\ UNCHANGED <<pc, checkVars, solverVars, callVars, genetic, usedCodes, generationVars,
                   scoredGuesses, ret, spawnVars>>

\* lines 216-218
ScoreWait ==
    /\ pc = "score.wait"
    /\ limiterWaitReturns(workers)
    /\ ret' = guesses
    /\ pc' = "score.done"
    /\ UNCHANGED <<checkVars, solverVars, callVars, genetic, usedCodes, generationVars,
                   scoredGuesses, scoreVars,
                   generationVars, spawnVars>>

NextScore ==
    \/ ScoreBegin
    \/ ScoreGo
    \/ ScoreRangeEnd
    \/ \E i \in DOMAIN workers : WorkerCountHits(i)
    \/ \E i \in DOMAIN workers : WorkerLocked(i)
    \/ \E i \in DOMAIN workers : WorkerEnsure(i)
    \/ \E i \in DOMAIN workers : WorkerAppend(i)
    \/ ScoreWait

SpecScore == InitScore /\ [][NextScore]_vars

\* the places (key, index) of the map groups that hold the code c
Places(groups, c) ==
    {e \in UNION {{<<k, j>> : j \in DOMAIN groups[k]} : k \in DOMAIN groups} :
        groups[e[1]][e[2]] = c}

\* the workers inside the combining region
InRegion == {i \in DOMAIN workers : workers[i].pc \in {"ensure", "append"}}

\* C22: whatever the interleaving of the workers, the map score returns holds
\* every candidate of P at exactly one place and nothing else, each under the
\* key that is its worst-case bucket count against S; the groups, taken as
\* sets, are those of the scoring without interleaving; and at no time are two
\* workers inside the combining region
C22_ScoreMap ==
    /\ pc = "score.done" =>
          /\ \A i \in DOMAIN P : Cardinality(Places(ret, P[i])) = 1
          /\ \A k \in DOMAIN ret : \A j \in DOMAIN ret[k] :
                /\ ret[k][j] \in Range(P)
                /\ k = WorstCase(ret[k][j])
          /\ [k \in DOMAIN ret |-> Range(ret[k])] =
                score(game, P, results(game, P), members(S, P))
    /\ pc \in {"score.range", "score.wait"} =>
          /\ Cardinality(InRegion) <= 1
          /\ \A i \in InRegion : limiter.held = i

\* score has returned a group in which a later candidate of P stands before
\* an earlier one
C22_Witness ==
    /\ pc = "score.done"
    /\ \E k \in DOMAIN ret : \E a, b \in DOMAIN ret[k] :
          /\ a < b
          /\ \E i, j \in DOMAIN P : i > j /\ P[i] = ret[k][a] /\ P[j] = ret[k][b]

(***************************************************************************)
(* The eligible set Ei of the genetic Solve (SpecGenetic)                  *)
(***************************************************************************)
\* C23: a move after the first does not start its generation loop from an
\* empty Ei: the survivors the previous move collected are carried over, so
\* the loop is entered with the Ei the previous move ended with
C23_EiCarriedOver ==
    [][(pc = "genetic.loop" /\ pc' = "genetic.generations"
           /\ genetic'.move > 1) => Ei' = Ei]_vars

\* the code c scores against every guess made so far the result that guess
\* was given
ConsistentWithMoves(c) ==
    \A q \in Moves :
        CheckCode(c, genetic.guesses[q], game.Colors).res = genetic.results[q]

\* C24: at every move, when the generation loop is over, a member of the
\* populations is in Ei exactly when its feedback against every guess made so
\* far equals the feedback observed for that guess
C24_CollectedIffConsistent ==
    (pc = "genetic.best" /\ genetic.move >= 1) =>
        \A c \in population : c \in Ei <=> ConsistentWithMoves(c)

(***************************************************************************)
(* Package genetic: Spawn and its operators.  A Code is a byte slice: a    *)
(* citizen holds the address of its slice in heap, so that two citizens    *)
(* share storage exactly when they hold one address.  Positions are        *)
(* counted from 1 here and from 0 in the source.  The rolls and draws of   *)
(* rand are choices among their outcomes.  An operator whose loop draws    *)
(* the same value for ever does not return: it has no step.                *)
(***************************************************************************)
\* Citizen{Code: the slice at addr}
Citizen(addr) == [Code |-> addr, fitness |-> 0]

NoCitizen == [Code |-> 0, fitness |-> 0]

\* the locals of Spawn and of the operator it is in
spawnLocals(x, y) ==
    [x |-> x, y |-> y, child |-> NoCitizen, fired |-> FALSE,
     p1 |-> 0, p2 |-> 0, i |-> 0]

\* c.Code[pos] = col
writeCode(h, addr, pos, col) == [h EXCEPT ![addr][pos] = col]

\* child := x.Code in place of make and copy
aliasChild(h, x, n) == [heap |-> h, addr |-> x.Code]

\* lines 307-308: make(mm.Code, n) and copy(child, x.Code)
newChild(h, x, n) ==
    LET from == h[x.Code]
    IN [heap |-> Append(h, [k \in 1..n |->
                               IF k <= Len(from) THEN from[k] ELSE 0]),
        addr |-> Len(h) + 1]

\* the cut points with the second at twice the first
cutPointsTwice(n, single) ==
    IF single THEN <<0, n \div 2>> ELSE <<n \div 3, 2 * (n \div 3)>>

\* lines 310-316: cp1 and cp2, single being roll < 0.5
cutPoints(n, single) ==
    IF single THEN <<0, n \div 2>> ELSE <<n \div 3, n - (n \div 3)>>

\* crossover(x, y) for one outcome of the roll: the heap and the child
crossover(h, g, x, y, single) ==
    LET made == newChild(h, x, g.Positions)
        cp == cutPoints(g.Positions, single)
        yCode == h[y.Code]
        copied == made.heap[made.addr]
        crossed == [k \in DOMAIN copied |->
                       IF cp[1] < k /\ k <= cp[2] THEN yCode[k] ELSE copied[k]]
    IN [heap |-> [made.heap EXCEPT ![made.addr] = crossed],
        child |-> Citizen(made.addr)]

\* mutate(c): the heaps it can leave with what it returns; a roll below 0.03
\* draws a position and then colors until one differs from the color there
mutateOutcomes(h, g, c) ==
    {[heap |-> h, fired |-> FALSE]} \cup
    {[heap |-> writeCode(h, c.Code, e[1], e[2]), fired |-> TRUE] :
        e \in {f \in (1..g.Positions) \X (0..(g.Colors - 1)) :
                  h[c.Code][f[1]] # f[2]}}

\* the loop of permute is left whatever the two positions are
permuteBreaksAnywhere(code, p1, p2, i) == code[p1] # code[p2] \/ i > 10

\* lines 354-362: the loop of permute is left after this draw
permuteBreaks(code, p1, p2, i) ==
    /\ p1 # p2
    /\ code[p1] # code[p2] \/ i > 10

\* line 364
swapCode(h, addr, p1, p2) ==
    [h EXCEPT ![addr] = [@ EXCEPT ![p1] = h[addr][p2], ![p2] = h[addr][p1]]]

\* order(x, y)
order(x, y) == IF y < x THEN <<y, x>> ELSE <<x, y>>

\* lines 384-389: the colors from p1 to p2 in reverse order
invertCode(h, addr, p1, p2) ==
    LET o == order(p1, p2)
    IN [h EXCEPT ![addr] = [k \in DOMAIN @ |->
                               IF o[1] <= k /\ k <= o[2]
                               THEN h[addr][o[1] + o[2] - k] ELSE h[addr][k]]]

\* invert(c): a roll below 0.02 draws p1 and then p2 until it differs
invertOutcomes(h, g, c) ==
    {[heap |-> h, fired |-> FALSE]} \cup
    {[heap |-> invertCode(h, c.Code, e[1], e[2]), fired |-> TRUE] :
        e \in {f \in (1..g.Positions) \X (1..g.Positions) : f[1] # f[2]}}

\* a solver of a game is about to call Spawn(x, y) on two citizens
InitSpawn ==
    /\ pc = "spawn"
    /\ \E p \in 1..MaxPositions, c \in 1..MaxColors :
          /\ Pow(c, p) <= MaxSpawnCodes
          /\ \E secret \in randomCodes(p, c) :
                game = NewCustomGameWithSecret(p, c, secret)
    /\ genetic = [move |-> 0,
                  guesses |-> [k \in 0..(maxGuesses(game) - 1) |-> NoCode],
                  results |-> [k \in 0..(maxGuesses(game) - 1) |-> NoResult]]
    /\ \E xc, yc \in CodesOfLen(game.Positions, 0..(game.Colors - 1)) :
          heap = <<xc, yc>>
    /\ spawn = spawnLocals(Citizen(1), Citizen(2))
    /\ generate = <<>>
    /\ guess = NoCode /\ ret = <<>>
    /\ initialMoves = <<>> /\ initialMove = NoCode
    /\ S = <<>> /\ P = <<>> /\ plan = NoPlan
    /\ guessArg = <<>> /\ actualArg = <<>> /\ colorsArg = 0
    /\ NoCalls /\ usedCodes = <<>> /\ scoredGuesses = <<>>
    /\ NoScore /\ NoGeneration

\* line 293
SpawnCrossover ==
    /\ pc = "spawn"
    /\ \E single \in BOOLEAN :
          LET crossed == crossover(heap, game, spawn.x, spawn.y, single)
          IN /\ heap' = crossed.heap
             /\ spawn' = [spawn EXCEPT !.child = crossed.child]
    /\ pc' = "spawn.mutate"
    /\ UNCHANGED <<checkVars, solverVars, callVars, genetic, usedCodes,
                   scoredGuesses, ret, scoreVars, generationVars, generate>>

\* line 294
SpawnMutate ==
    /\ pc = "spawn.mutate"
    /\ \E o \in mutateOutcomes(heap, game, spawn.child) : heap' = o.heap
    /\ pc' = "spawn.permute"
    /\ UNCHANGED <<checkVars, solverVars, callVars, genetic, usedCodes,
                   scoredGuesses, ret, scoreVars, generationVars, generate,
                   spawn>>

\* lines 346-350 and 368: the roll of permute and the draw of p1
PermuteRoll ==
    /\ pc = "spawn.permute"
    /\ \/ /\ spawn' = [spawn EXCEPT !.fired = FALSE]
          /\ pc' = "spawn.invert"
       \/ /\ \E p1 \in 1..game.Positions :
                spawn' = [spawn EXCEPT !.p1 = p1, !.p2 = 0, !.i = 0]
          /\ pc' = "permute.draw"
    /\ UNCHANGED <<checkVars, solverVars, callVars, genetic, usedCodes,
                   scoredGuesses, ret, scoreVars, generationVars, generate,
                   heap>>

\* lines 351-363: one turn of the loop of permute
PermuteDraw ==
    /\ pc = "permute.draw"
    /\ spawn.i < MaxPermuteDraws
    /\ \E p2 \in 1..game.Positions :
          /\ spawn' = [spawn EXCEPT !.i = @ + 1, !.p2 = p2]
          /\ pc' = IF permuteBreaks(heap[spawn.child.Code], spawn.p1, p2,
                                    spawn.i + 1)
                   THEN "permute.swap" ELSE "permute.draw"
    /\ UNCHANGED <<checkVars, solverVars, callVars, genetic, usedCodes,
                   scoredGuesses, ret, scoreVars, generationVars, generate,
                   heap>>

\* lines 364-365
PermuteSwap ==
    /\ pc = "permute.swap"
    /\ heap' = swapCode(heap, spawn.child.Code, spawn.p1, spawn.p2)
    /\ spawn' = [spawn EXCEPT !.fired = TRUE]
    /\ pc' = "spawn.invert"
    /\ UNCHANGED <<checkVars, solverVars, callVars, genetic, usedCodes,
                   scoredGuesses, ret, scoreVars, generationVars, generate>>

\* lines 296-297
SpawnInvert ==
    /\ pc = "spawn.invert"
    /\ \E o \in invertOutcomes(heap, game, spawn.child) : heap' = o.heap
    /\ ret' = spawn.child
    /\ pc' = "spawn.done"
    /\ UNCHANGED <<checkVars, solverVars, callVars, genetic, usedCodes,
                   scoredGuesses, scoreVars, generationVars, generate, spawn>>

NextSpawn ==
    \/ SpawnCrossover
    \/ SpawnMutate
    \/ PermuteRoll
    \/ PermuteDraw
    \/ PermuteSwap
    \/ SpawnInvert

SpecSpawn == InitSpawn /\ [][NextSpawn]_vars

\* a step of Spawn leaves the colors of both parents as they are
parentsKept ==
    pc \in {"spawn", "spawn.mutate", "spawn.permute", "permute.draw",
            "permute.swap", "spawn.invert"} =>
        /\ heap'[spawn.x.Code] = heap[spawn.x.Code]
        /\ heap'[spawn.y.Code] = heap[spawn.y.Code]

\* C25: no step of Spawn(x, y) changes a color of x.Code or of y.Code, whatever
\* the rolls and draws, and the child Spawn returns holds its colors in
\* storage that is neither x's nor y's
C25_ParentsUntouched ==
    /\ [][parentsKept]_vars
    /\ [](pc = "spawn.done" => ret.Code \notin {spawn.x.Code, spawn.y.Code})

\* Spawn has returned a child whose colors are neither those of x nor those
\* of y, the parents differing
C25_Witness ==
    /\ pc = "spawn.done"
    /\ heap[spawn.x.Code] # heap[spawn.y.Code]
    /\ heap[ret.Code] \notin {heap[spawn.x.Code], heap[spawn.y.Code]}

\* the child of length n that takes y's colors from cp1 up to cp2 - 1, counted
\* from 0, and x's colors elsewhere
crossed(x, y, n, cp1, cp2) ==
    [k \in 1..n |-> IF cp1 <= k - 1 /\ k - 1 < cp2 THEN y[k] ELSE x[k]]

\* C26: the child crossover(x, y) returns has length P and is x with y's colors
\* from cp1 up to cp2 - 1, where (cp1, cp2) is (0, P/2) or (P/3, P - P/3) in
\* integer division
C26_CrossoverChild ==
    pc = "spawn.mutate" =>
        LET n == game.Positions
            x == heap[spawn.x.Code]
            y == heap[spawn.y.Code]
            child == heap[spawn.child.Code]
        IN /\ Len(child) = n
           /\ \/ child = crossed(x, y, n, 0, n \div 2)
              \/ child = crossed(x, y, n, n \div 3, n - (n \div 3))

\* crossover has returned the two-point child of a game of three positions,
\* which is neither parent nor the single-point child
C26_Witness ==
    /\ pc = "spawn.mutate"
    /\ game.Positions = 3
    /\ LET x == heap[spawn.x.Code]
           y == heap[spawn.y.Code]
           child == heap[spawn.child.Code]
       IN /\ child = crossed(x, y, 3, 1, 2)
          /\ child \notin {x, y, crossed(x, y, 3, 0, 1)}

\* the step of permute that swaps exchanges the colors of two distinct
\* positions of the code and leaves the other positions as they are
swapsDistinct ==
    LET before == heap[spawn.child.Code]
        after == heap'[spawn.child.Code]
    IN /\ spawn.p1 # spawn.p2
       /\ after[spawn.p1] = before[spawn.p2]
       /\ after[spawn.p2] = before[spawn.p1]
       /\ \A k \in DOMAIN before \ {spawn.p1, spawn.p2} : after[k] = before[k]
       /\ DOMAIN after = DOMAIN before

\* the two positions held different colors before the swap
swapsDiffering ==
    heap[spawn.child.Code][spawn.p1] # heap[spawn.child.Code][spawn.p2]

permuteOutcomes(h, g, c) ==
    {[heap |-> h, fired |-> FALSE]} \cup
    {[heap |-> swapCode(h, c.Code, e[1], e[2]), fired |-> TRUE] :
        e \in {f \in (1..g.Positions) \X (1..g.Positions) :
                  \E i \in 1..MaxPermuteDraws :
                      permuteBreaks(h[c.Code], f[1], f[2], i)}}

\* 1 for an outcome in which the operator fired
fires(o) == IF o.fired THEN 1 ELSE 0

\* the outcomes of an operator when at most n more operators fire
upTo(outcomes, n) == {o \in outcomes : fires(o) <= n}

\* Spawn(x, y): the heaps it can leave with the child it returns and the
\* number of operators that fired, when at most n of them fire
SpawnOutcomes(h, g, x, y, n) ==
    UNION {LET made == crossover(h, g, x, y, single)
           IN UNION {UNION {{[heap |-> v.heap, child |-> made.child,
                              fired |-> fires(m) + fires(p) + fires(v)] :
                                v \in upTo(invertOutcomes(p.heap, g, made.child),
                                           n - fires(m) - fires(p))} :
                            p \in upTo(permuteOutcomes(m.heap, g, made.child),
                                       n - fires(m))} :
                     m \in upTo(mutateOutcomes(made.heap, g, made.child), n)} :
           single \in BOOLEAN}

\* Citizen.Key
Key(h, c) == String(h[c.Code])

\* make(Population, n)
emptyPopulation == [k \in {} |-> NoCitizen]

\* p[k] = c
putCitizen(p, k, c) == [j \in DOMAIN p \cup {k} |-> IF j = k THEN c ELSE p[j]]

\* the limiter of Fitness: when Wait returns, every closure handed to Go has
\* run once
limiterRan(closures) == closures

\* lines 207-223: the citizens appended, each with its fitness
appended(h, g, s, pop) ==
    {[pop[k] EXCEPT !.fitness = fitness(g, s, h[pop[k].Code])] :
        k \in limiterRan(DOMAIN pop)}

\* sort.Sort(citizens): the orders by fitnessList.Less of a set of citizens
RECURSIVE sorted(_)
sorted(citizens) ==
    IF citizens = {} THEN {<<>>}
    ELSE LET least == {c \in citizens :
                          \A e \in citizens : ~(e.fitness < c.fitness)}
         IN UNION {{<<c>> \o rest : rest \in sorted(citizens \ {c})} :
                     c \in least}

\* Fitness(pop): the lists it can return
Fitness(h, g, s, pop) == sorted(appended(h, g, s, pop))

\* every citizen is kept
eldersAll(ranked) == ranked

\* line 239
eldersHalf(ranked) == SubSeq(ranked, 1, Len(ranked) \div 2)

\* InitializePopulation(size) when RandomCode yields every seventh code of the
\* game, from the first on
populationOf(g, size) ==
    LET numCodes == Pow(g.Colors, g.Positions)
        code(j) == codeDigits(g, (7 * (j - 1)) % numCodes, 0)
    IN [heap |-> [j \in 1..size |-> code(j)],
        pop |-> emptyPopulation @@
                [k \in {String(code(j)) : j \in 1..size} |->
                    Citizen(CHOOSE j \in 1..size : String(code(j)) = k)]]

\* Solve has made its first move and is at line 103 with a population
InitGenerate ==
    /\ pc = "generate"
    /\ \E p \in 1..MaxGeneticPositions, c \in 1..MaxGeneticColors :
          \E secret \in drawnCodes(p, c) :
              LET g == NewCustomGameWithSecret(p, c, secret)
                  first == InitialGuess(g)
                  scored == ScoredGuess(g, first)
              IN /\ Pow(g.Colors, p) <= MaxGenerateCodes
                 /\ first # NoCode
                 /\ ~scored.err
                 /\ ~IsWin(g, scored.res)
                 /\ game = [g EXCEPT !.TurnsTaken = 1]
                 /\ guess = first
                 /\ genetic =
                       [move |-> 1,
                        guesses |-> [k \in 0..(maxGuesses(g) - 1) |->
                                        IF k = 1 THEN first ELSE NoCode],
                        results |-> [k \in 0..(maxGuesses(g) - 1) |->
                                        IF k = 1 THEN scored.res ELSE NoResult]]
    /\ \E size \in 0..MaxPopulation :
          /\ size <= Pow(game.Colors, game.Positions)
          /\ LET made == populationOf(game, size)
             IN /\ heap = made.heap
                /\ generate = [pop |-> made.pop, elders |-> <<>>,
                               nextGen |-> emptyPopulation, printed |-> <<>>,
                               fired |-> 0]
    /\ spawn = <<>>
    /\ ret = <<>>
    /\ initialMoves = <<>> /\ initialMove = NoCode
    /\ S = <<>> /\ P = <<>> /\ plan = NoPlan
    /\ guessArg = <<>> /\ actualArg = <<>> /\ colorsArg = 0
    /\ NoCalls /\ usedCodes = <<>> /\ scoredGuesses = <<>>
    /\ NoScore /\ NoGeneration

\* lines 233-239
GenerateFitness ==
    /\ pc = "generate"
    /\ \E ranked \in Fitness(heap, game, genetic, generate.pop) :
          generate' = [generate EXCEPT !.nextGen = emptyPopulation,
                                       !.elders = eldersHalf(ranked)]
    /\ pc' = "generate.pairs"
    /\ UNCHANGED <<checkVars, solverVars, callVars, genetic, usedCodes,
                   scoredGuesses, ret, scoreVars, generationVars, heap, spawn>>

\* lines 242-265: one turn of the loop that pairs the elders
GeneratePair ==
    /\ pc = "generate.pairs"
    /\ Len(generate.elders) >= 2
    /\ LET x == generate.elders[1]
           y == generate.elders[2]
           parents == putCitizen(putCitizen(generate.nextGen, Key(heap, x), x),
                                 Key(heap, y), y)
           left == MaxOperatorsFired - generate.fired
       IN \E oa \in SpawnOutcomes(heap, game, x, y, left) :
             \E ob \in SpawnOutcomes(oa.heap, game, y, x, left - oa.fired) :
                LET h == ob.heap
                    a == [oa.child EXCEPT
                             !.fitness = fitness(game, genetic, h[oa.child.Code])]
                    b == [ob.child EXCEPT
                             !.fitness = fitness(game, genetic, h[ob.child.Code])]
                IN /\ generate.fired + oa.fired + ob.fired <= MaxOperatorsFired
                   /\ heap' = h
                   /\ generate' =
                         [generate EXCEPT
                             !.elders = SubSeq(@, 3, Len(@)),
                             !.nextGen = putCitizen(putCitizen(parents,
                                             Key(h, a), a), Key(h, b), b),
                             !.printed = Append(@, [x |-> x, y |-> y,
                                                    a |-> a, b |-> b]),
                             !.fired = @ + oa.fired + ob.fired]
    /\ UNCHANGED <<pc, checkVars, solverVars, callVars, genetic, usedCodes,
                   scoredGuesses, ret, scoreVars, generationVars, spawn>>

\* lines 243-245 and 267-269
GenerateReturn ==
    /\ pc = "generate.pairs"
    /\ Len(generate.elders) < 2
    /\ ret' = generate.nextGen
    /\ pc' = "generate.done"
    /\ UNCHANGED <<checkVars, solverVars, callVars, genetic, usedCodes,
                   scoredGuesses, scoreVars, generationVars, spawnVars>>

NextGenerate == GenerateFitness \/ GeneratePair \/ GenerateReturn

SpecGenerate == InitGenerate /\ [][NextGenerate]_vars

\* the elders Generate kept, in the order of their ranks: those it paired and
\* the one it may have left over
keptElders ==
    LET RECURSIVE paired(_)
        paired(j) == IF j > Len(generate.printed) THEN <<>>
                     ELSE <<generate.printed[j].x, generate.printed[j].y>>
                              \o paired(j + 1)
    IN paired(1) \o generate.elders

\* the fitness of the code a citizen holds
fitnessOf(c) == fitness(game, genetic, heap[c.Code])

\* the codes Spawn can return for parents with the codes xc and yc when no
\* more operators fire than did in this call of Generate
spawnCodes(xc, yc) ==
    {o.heap[o.child.Code] :
        o \in SpawnOutcomes(<<xc, yc>>, game, Citizen(1), Citizen(2),
                            generate.fired)}

InitOpening ==
    /\ InitSolver
    /\ plan = NoPlan
    /\ \/ \E p \in 1..MaxPositions, c \in 1..MaxColors :
             /\ Pow(c, p) <= MaxCodes
             /\ \E secret \in randomCodes(p, c) :
                   game = NewCustomGameWithSecret(p, c, secret)
       \/ \E size \in DOMAIN initialMovesInit :
             \E secret \in drawnCodes(size[1], size[2]) :
                game = NewCustomGameWithSecret(size[1], size[2], secret)

NextOpening == NewSolver

SpecOpening == InitOpening /\ [][NextOpening]_vars

\* the codes of the game in the order of String(), numbered from 1
codeNumbered(n) ==
    [k \in 1..game.Positions |->
        ((n - 1) \div Pow(game.Colors, game.Positions - k)) % game.Colors]

codeList ==
    SubSeq([n \in 1..Pow(game.Colors, game.Positions) |-> codeNumbered(n)],
           1, Pow(game.Colors, game.Positions))

\* the number of a code in codeList
RECURSIVE numberFrom(_, _)
numberFrom(code, k) ==
    IF k = 0 THEN 0 ELSE game.Colors * numberFrom(code, k - 1) + code[k]

numberOf(code) == numberFrom(code, Len(code)) + 1

\* how often each color occurs in code, the color v at index v + 1
colorCount(code) ==
    SubSeq([v \in 1..game.Colors |->
               Cardinality({k \in DOMAIN code : code[k] = v - 1})],
           1, game.Colors)

\* the colors up to v - 1 that two codes share, from their color counts
RECURSIVE sharedColors(_, _, _)
sharedColors(a, b, v) ==
    IF v = 0 THEN 0
    ELSE (IF a[v] <= b[v] THEN a[v] ELSE b[v]) + sharedColors(a, b, v - 1)

\* the feedback for the guess p against the code s: the positions that agree
\* and the shared colors beyond them
pins(p, cp, s, cs) ==
    LET black == Cardinality({k \in DOMAIN p : p[k] = s[k]})
    IN <<black, sharedColors(cp, cs, game.Colors) - black>>

\* the worst case of the code numbered i: the size of the largest group of
\* codes that it gives one feedback
worstOver(codes, counts, i) ==
    LET fb == SubSeq([j \in DOMAIN codes |->
                         pins(codes[i], counts[i], codes[j], counts[j])],
                     1, Len(codes))
        sizes == {Cardinality({j \in DOMAIN codes : fb[j] = f}) :
                     f \in Range(fb)}
    IN CHOOSE n \in sizes : \A m \in sizes : m <= n

\* how many colors occur exactly n times in code
colorsOccurring(code, n) ==
    Cardinality({v \in Range(code) : Occurrences(code, v, Len(code)) = n})

\* the first code, in the order of String(), among those that arise from code
\* by permuting positions and renaming colors: its colors are 0, 1, ... in
\* this order, the more frequent colors of code first
RECURSIVE firstFrom(_, _, _)
firstFrom(code, n, color) ==
    IF n = 0 THEN <<>>
    ELSE LET k == colorsOccurring(code, n)
             block == [i \in 1..(k * n) |-> color + ((i - 1) \div n)]
         IN block \o firstFrom(code, n - 1, color + k)

firstOfPattern(code) == firstFrom(code, Len(code), 0)

\* C29: the opening guess NewSolver gives a solver, calculated or seeded, is a
\* code of the game with the least worst case over all the codes, and it is
\* the first such code in the order of String().  In a code space of more than
\* MaxOpeningCodes codes the worst case is worked out for the first code of
\* every pattern only: every code follows the first code of its pattern, and
\* the codes of one pattern have one worst case, which is checked in the code
\* spaces of at most MaxOpeningCodes codes
C29_OpeningGuess ==
    pc = "solve" =>
        LET codes == codeList
            all == DOMAIN codes
            counts == SubSeq([j \in all |-> colorCount(codes[j])],
                             1, Len(codes))
            first == SubSeq([j \in all |-> numberOf(firstOfPattern(codes[j]))],
                            1, Len(codes))
            candidates == IF Len(codes) <= MaxOpeningCodes THEN all
                          ELSE Range(first)
            worst == [j \in candidates |-> worstOver(codes, counts, j)] @@ <<>>
            o == numberOf(initialMove)
        IN /\ Range(codes) = CodeSpace
           /\ initialMove \in CodeSpace
           /\ o \in candidates
           /\ codes[o] = initialMove
           /\ \A j \in candidates :
                 /\ worst[o] <= worst[j]
                 /\ worst[j] = worst[o] => Precedes(initialMove, codes[j])
           /\ \A j \in all : /\ first[j] \in candidates
                             /\ Precedes(codes[first[j]], codes[j])
           /\ Len(codes) <= MaxOpeningCodes =>
                 \A j \in all : worst[j] = worst[first[j]]

\* a calculated opening guess that is not the first code of the game: the
\* codes before it have a larger worst case
C29_Witness ==
    /\ pc = "solve"
    /\ <<game.Positions, game.Colors>> \notin DOMAIN initialMovesInit
    /\ initialMove # codeList[1]
    /\ initialMove = firstOfPattern(initialMove)

\* the codes submitted to the oracle so far
Submitted == {scoredGuesses[i].guess : i \in DOMAIN scoredGuesses}

\* C30: while Solve runs on a secret of the code space, no code is submitted
\* to the oracle twice; after every pruning no submitted code is a hypothesis
\* of S; and while more than two hypotheses are left, every submitted code
\* gives all of S one feedback, so that its worst-case score is the size of
\* S, and the guess chosen next has a smaller one
C30_NoGuessTwice ==
    game.secretCode \in CodeSpace =>
        /\ \A i, j \in DOMAIN scoredGuesses :
              i # j => scoredGuesses[i].guess # scoredGuesses[j].guess
        /\ AfterPruning => Submitted \cap Range(S) = {}
        /\ (AfterPruning /\ Size(S) > 2) =>
              /\ \A c \in Submitted : WorstCase(c) = Size(S)
              /\ WorstCase(guess) < Size(S)
              /\ guess \notin Submitted

\* Solve has won after submitting a code that was not a hypothesis when it was
\* chosen, and so was a guess that could not win
C30_Witness ==
    /\ pc = "done"
    /\ game.secretCode \in CodeSpace
    /\ Len(scoredGuesses) >= 3
    /\ \E k \in DOMAIN scoredGuesses :
          /\ k < Len(scoredGuesses)
          /\ scoredGuesses[k + 1].guess \notin ConsistentAfter(k)

(***************************************************************************)
(* Package genetic: the generation loop of Solve, lines 94-117, one        *)
(* iteration at a step (SpecGenerations).  RandomCode yields every seventh *)
(* code of the game, and the population that Generate returns at an        *)
(* iteration holds the next MaxPopulation codes of that stream.            *)
(***************************************************************************)
maxGenerations == 100
maxSamplePopulation == 60

\* Solve is at line 94 of one of its first moves: the first guess was
\* InitialGuess(), the later ones were codes of drawnCodes, none has won
InitGenerations ==
    /\ pc = "genetic.generations"
    /\ \E p \in 1..MaxGeneticPositions, c \in 1..MaxGeneticColors :
          \E secret \in drawnCodes(p, c), m \in 1..MaxLoopMoves :
              LET g == NewCustomGameWithSecret(p, c, secret)
                  first == InitialGuess(g)
                  pool == drawnCodes(p, g.Colors)
              IN /\ first # NoCode
                 /\ Pow(g.Colors, p) >= initialPopulationSize
                 /\ ~ScoredGuess(g, first).err
                 /\ ~IsWin(g, ScoredGuess(g, first).res)
                 /\ \E later \in [2..m -> pool \ {secret}] :
                       LET made(q) == IF q = 1 THEN first ELSE later[q]
                       IN /\ game = [g EXCEPT !.TurnsTaken = m]
                          /\ guess = made(m)
                          /\ genetic =
                                [move |-> m,
                                 guesses |->
                                    [q \in 0..(maxGuesses(g) - 1) |->
                                        IF q \in 1..m THEN made(q)
                                        ELSE NoCode],
                                 results |->
                                    [q \in 0..(maxGuesses(g) - 1) |->
                                        IF q \in 1..m
                                        THEN ScoredGuess(g, made(q)).res
                                        ELSE NoResult]]
                          /\ population = pool
    /\ Ei = {} /\ generation = 0
    /\ ret = <<>>
    /\ initialMoves = <<>> /\ initialMove = NoCode
    /\ S = <<>> /\ P = <<>> /\ plan = NoPlan
    /\ guessArg = <<>> /\ actualArg = <<>> /\ colorsArg = 0
    /\ NoCalls /\ usedCodes = <<>> /\ scoredGuesses = <<>>
    /\ NoScore /\ NoSpawn

\* one iteration of the generation loop, lines 94-117; pop is the population
\* that Generate returns
GenerationStep ==
    /\ pc = "genetic.generations"
    /\ generation < maxGenerations
    /\ LET numCodes == Pow(game.Colors, game.Positions)
           from == (((genetic.move - 1) * maxGenerations) + generation)
                       * MaxPopulation
           pop == {codeDigits(game, (7 * (from + j)) % numCodes, 0) :
                      j \in 0..(MaxPopulation - 1)}
           collected == collect(game, genetic, Ei, pop)
       IN /\ population' = pop
          /\ Ei' = collected
          /\ IF Cardinality(collected) >= maxSamplePopulation
             THEN \* line 115
                  /\ generation' = generation
                  /\ pc' = "genetic.best"
             ELSE /\ generation' = generation + 1
                  /\ pc' = IF generation + 1 < maxGenerations
                           THEN "genetic.generations"
                           ELSE "genetic.best"
    /\ UNCHANGED <<checkVars, scoredGuesses, callVars, usedCodes, genetic,
                   ret, game, guess, initialMoves, initialMove, S, P, plan,
                   scoreVars, spawnVars>>

NextGenerations ==
    \/ GenerationStep
    \/ GeneticBest

SpecGenerations == InitGenerations /\ [][NextGenerations]_vars

(***************************************************************************)
(* Properties of the generation loop (SpecGenerations)                     *)
(***************************************************************************)
\* the term b*P*(move - 1) of fitness
moveTerm == 2 * game.Positions * (genetic.move - 1)

\* an iteration of a move after the first collects nothing and does not
\* break, and BestCandidate is then given an empty Ei
nothingCollected ==
    /\ (pc = "genetic.generations" /\ genetic.move >= 2) =>
          /\ moveTerm > 0
          /\ \A c \in population' : fitness(game, genetic, c) >= moveTerm
          /\ Ei = {} /\ Ei' = {}
          /\ generation' = generation + 1
          /\ pc' = "genetic.best" => generation' = maxGenerations
    /\ (pc = "genetic.best" /\ genetic.move >= 2) =>
          /\ Ei = {}
          /\ generation = maxGenerations
          /\ guess' \in drawnCodes(game.Positions, game.Colors)

C32_EmptyOpeningError ==
    (InGenetic /\ game.Positions \notin {4, 5, 6}) =>
        /\ pc \in {"genetic.loop", "done"}
        /\ pc = "genetic.loop" =>
              /\ guess = <<>>
              /\ genetic.move = 0 /\ game.TurnsTaken = 0
        /\ pc = "done" =>
              /\ ret = [code |-> NoCode, err |-> "codes are not equal length"]
              /\ genetic.move = 1 /\ game.TurnsTaken = 1
              /\ genetic.move \in DOMAIN genetic.guesses
====
